---- MODULE Spec2Model ----
(***************************************************************************)
(* STRIDE assistant: the decision engine (rag/decision_engine.py) and the  *)
(* conversation pipeline (Services/rag_pipeline.py) as state machines.     *)
(*                                                                         *)
(* Spec        one STRIDERAGPipeline instance processing turns             *)
(* EngineSpec  direct calls of StrideDecisionEngine.make_decision          *)
(* ArbSpec     direct calls of STRIDERAGPipeline._resolve_final_ticket     *)
(* ReturnScenarioSpec  two turns about an order bought 2 days ago          *)
(* LateRefundSpec      refund requests for an order past the return window *)
(* NormalizeSpec       direct calls of STRIDERAGPipeline._normalize_signal *)
(* PrimaryChatSpec     turns whose primary_intent is general_chat          *)
(* RetrieverSpec       direct calls of rag.retriever.retrieve_policy_chunks *)
(* NoMatchSpec         turns on which retrieve_policy finds no policy       *)
(* TicketSpec          workers running db.ticket_guard.process_ticket       *)
(* ChatSpec            /chat/start and /chat/respond requests of one chat   *)
(***************************************************************************)
EXTENDS Integers, Sequences, FiniteSets, TLC

VARIABLES
    \* ---- STRIDERAGPipeline fields ----
    order,                \* self.order, loaded once by __init__
    turn_count,           \* self.turn_count
    general_chat_count,   \* self.general_chat_count
    inventory_available,  \* self.inventory_available (None until the first check)
    signals,              \* self.signals, the ledger
    \* ---- observation of the last process_turn call ----
    response,             \* the dict process_turn returned
    trace,                \* what the last call did (steps it ran, what they gave)
    history,              \* counters over all calls made on this pipeline
    \* ---- direct make_decision calls ----
    decision_in,          \* arguments of the last make_decision call
    decision_out,         \* the dict it returned
    \* ---- direct _normalize_signal calls ----
    normalize_in,         \* argument of the last _normalize_signal call
    normalize_out,        \* the TicketSignal it returned
    \* ---- direct retrieve_policy_chunks calls ----
    retrieve_in,          \* arguments of the last retrieve_policy_chunks call
    retrieve_out,         \* the list it returned
    \* ---- the service around the pipeline (api/chat.py, db/) ----
    tickets,              \* rows of sales_schema.tickets for the order
    guard,                \* the process_ticket calls in progress, per worker
    api                   \* the /chat request being served

vars == <<order, turn_count, general_chat_count, inventory_available, signals,
          response, trace, history, decision_in, decision_out,
          normalize_in, normalize_out, retrieve_in, retrieve_out,
          tickets, guard, api>>

pipeline_vars == <<order, turn_count, general_chat_count, inventory_available,
                   signals, response, trace, history>>

engine_vars == <<decision_in, decision_out>>

normalizer_vars == <<normalize_in, normalize_out>>

retriever_vars == <<retrieve_in, retrieve_out>>

service_vars == <<tickets, guard, api>>

(***************************************************************************)
(* Bounds                                                                  *)
(***************************************************************************)
MaxDays == 182          \* purchase ages drawn for direct engine calls
MaxEngineTurn == 4      \* turn_count values drawn for direct engine calls
MaxTurns == 3           \* substantive turns one pipeline processes
MaxGeneralChat == 3     \* consecutive general-chat turns one pipeline processes
MaxLedgerTurns == 2     \* turns recorded in a ledger drawn for direct arbitration calls
MaxResolveCalls == 2    \* direct _resolve_final_ticket calls made on one ledger
MaxScenarioTurns == 2   \* substantive turns of the two-turn conversations
MaxTickets == 2         \* rows the tickets table holds for the order

(***************************************************************************)
(* Python None / absent dict key                                           *)
(***************************************************************************)
NoValue == "<None>"

(***************************************************************************)
(* rag/decision_engine.py                                                  *)
(***************************************************************************)
return_window_days == 7
warranty_days == 180
turn_limit == 3

\* the closed intent vocabulary of the analyzer
Intents == {"refund_request", "return_request", "replacement_request",
            "repair_request", "inspection_request", "general_chat"}

\* values analysis.get("primary_intent") can have: the vocabulary, a label
\* outside it, a padded label, the empty string, or no key at all
PrimaryIntentValues == Intents \cup {"unknown_request", " refund_request ", "", NoValue}

\* values analysis.get("misuse_or_accident", False) can have
MisuseValues == {"True", "False", NoValue}

\* order_data["purchase_date"]: absent, a string strptime rejects, or a
\* parseable date lying `age` days before date.today()
PurchaseDate(kind, age) == [kind |-> kind, age |-> age]

\* str.strip() on the labels drawn above
Strip(s) == IF s = " refund_request " THEN "refund_request" ELSE s

\* x or "general_chat"
OrGeneralChat(x) == IF x = NoValue \/ x = "" THEN "general_chat" ELSE x

\* bool(x) for the misuse flag
Truthy(x) == x = "True"

\* StrideDecisionEngine._result
Result(decision, action, ticket_type, generate_ticket, rule_code, paid_service_flag) ==
    [decision |-> decision,
     action |-> action,
     ticket_type |-> ticket_type,
     generate_ticket |-> generate_ticket,
     paid_service_flag |-> paid_service_flag,
     rule_code |-> rule_code]

\* StrideDecisionEngine._days_used: NoValue, or the number of days
DaysUsed(purchase_date) ==
    IF purchase_date.kind = "missing" THEN [none |-> TRUE, days |-> 0]
    ELSE IF purchase_date.kind = "unparseable" THEN [none |-> TRUE, days |-> 0]
    ELSE [none |-> FALSE, days |-> purchase_date.age]

HandleMisuse_NoWarrantyCheck(days_used) ==
    Result("reject", "policy_rejection", "REJECT", FALSE,
           "RULE_0_MISUSE_OUT_OF_WARRANTY", FALSE)

\* StrideDecisionEngine._handle_misuse
HandleMisuse(days_used) ==
    IF days_used <= warranty_days
    THEN Result("approve", "paid_repair_offer", "PAID_REPAIR", TRUE,
                "RULE_0_MISUSE_IN_WARRANTY", TRUE)
    ELSE Result("reject", "policy_rejection", "REJECT", FALSE,
                "RULE_0_MISUSE_OUT_OF_WARRANTY", FALSE)

HandleReturnRefund_DaySevenRejected(days_used) ==
    IF days_used >= return_window_days
    THEN Result("reject", "policy_rejection", "REJECT", FALSE,
                "RULE_1_RETURN_REFUND_TOO_LATE", FALSE)
    ELSE Result("manual", "refund_evaluation", "RETURN", TRUE,
                "RULE_1_RETURN_REFUND_WITHIN_WINDOW", FALSE)

HandleReturnRefund_LateBoundary(days_used) ==
    IF days_used > return_window_days + 1
    THEN Result("reject", "policy_rejection", "REJECT", FALSE,
                "RULE_1_RETURN_REFUND_TOO_LATE", FALSE)
    ELSE Result("manual", "refund_evaluation", "RETURN", TRUE,
                "RULE_1_RETURN_REFUND_WITHIN_WINDOW", FALSE)

\* StrideDecisionEngine._handle_return_refund
HandleReturnRefund(days_used) ==
    IF days_used > return_window_days
    THEN Result("reject", "policy_rejection", "REJECT", FALSE,
                "RULE_1_RETURN_REFUND_TOO_LATE", FALSE)
    ELSE Result("manual", "refund_evaluation", "RETURN", TRUE,
                "RULE_1_RETURN_REFUND_WITHIN_WINDOW", FALSE)

HandleRepairReplacement_IgnoresStock(days_used, inv) ==
    IF days_used <= return_window_days
    THEN Result("approve", "replacement_authorized", "REPLACEMENT", TRUE,
                "RULE_2_EARLY_REPLACEMENT_IN_STOCK", FALSE)
    ELSE IF days_used <= warranty_days
    THEN Result("approve", "repair_authorized", "REPAIR", TRUE,
                "RULE_2_REPAIR_IN_WARRANTY", FALSE)
    ELSE Result("approve", "paid_repair_offer", "PAID_REPAIR", TRUE,
                "RULE_2_PAID_REPAIR_OUT_OF_WARRANTY", TRUE)

HandleRepairReplacement_StrictWindows(days_used, inv) ==
    IF days_used < return_window_days
    THEN IF inv
         THEN Result("approve", "replacement_authorized", "REPLACEMENT", TRUE,
                     "RULE_2_EARLY_REPLACEMENT_IN_STOCK", FALSE)
         ELSE Result("manual", "stock_out_inspection", "INSPECTION", TRUE,
                     "RULE_2_EARLY_REPLACEMENT_STOCK_OUT", FALSE)
    ELSE IF days_used < warranty_days
    THEN Result("approve", "repair_authorized", "REPAIR", TRUE,
                "RULE_2_REPAIR_IN_WARRANTY", FALSE)
    ELSE Result("approve", "paid_repair_offer", "PAID_REPAIR", TRUE,
                "RULE_2_PAID_REPAIR_OUT_OF_WARRANTY", TRUE)

\* StrideDecisionEngine._handle_repair_replacement
HandleRepairReplacement(days_used, inv) ==
    IF days_used <= return_window_days
    THEN IF inv
         THEN Result("approve", "replacement_authorized", "REPLACEMENT", TRUE,
                     "RULE_2_EARLY_REPLACEMENT_IN_STOCK", FALSE)
         ELSE Result("manual", "stock_out_inspection", "INSPECTION", TRUE,
                     "RULE_2_EARLY_REPLACEMENT_STOCK_OUT", FALSE)
    ELSE IF days_used <= warranty_days
    THEN Result("approve", "repair_authorized", "REPAIR", TRUE,
                "RULE_2_REPAIR_IN_WARRANTY", FALSE)
    ELSE Result("approve", "paid_repair_offer", "PAID_REPAIR", TRUE,
                "RULE_2_PAID_REPAIR_OUT_OF_WARRANTY", TRUE)

DecisionRules_IntentBeforeMisuse(primary_intent, misuse_flag, days_used, inv, turn) ==
    IF primary_intent = "general_chat"
    THEN Result("reject", "policy_rejection", "REJECT", FALSE,
                "RULE_NEG1_GENERAL_CHAT", FALSE)
    ELSE IF turn >= turn_limit
    THEN Result("manual", "gather_info", "INSPECTION", TRUE,
                "RULE_3_TURN_LIMIT", FALSE)
    ELSE IF primary_intent \in {"refund_request", "return_request"}
    THEN HandleReturnRefund(days_used)
    ELSE IF primary_intent \in {"repair_request", "replacement_request"}
    THEN HandleRepairReplacement(days_used, inv)
    ELSE IF misuse_flag
    THEN HandleMisuse(days_used)
    ELSE Result("manual", "gather_info", "INSPECTION", FALSE,
                "DEFAULT_CLARIFICATION", FALSE)

DecisionRules_TurnLimitFirst(primary_intent, misuse_flag, days_used, inv, turn) ==
    IF turn >= turn_limit
    THEN Result("manual", "gather_info", "INSPECTION", TRUE,
                "RULE_3_TURN_LIMIT", FALSE)
    ELSE IF primary_intent = "general_chat"
    THEN Result("reject", "policy_rejection", "REJECT", FALSE,
                "RULE_NEG1_GENERAL_CHAT", FALSE)
    ELSE IF misuse_flag
    THEN HandleMisuse(days_used)
    ELSE IF primary_intent \in {"refund_request", "return_request"}
    THEN HandleReturnRefund(days_used)
    ELSE IF primary_intent \in {"repair_request", "replacement_request"}
    THEN HandleRepairReplacement(days_used, inv)
    ELSE Result("manual", "gather_info", "INSPECTION", FALSE,
                "DEFAULT_CLARIFICATION", FALSE)

DecisionRules_DefaultOpensTicket(primary_intent, misuse_flag, days_used, inv, turn) ==
    IF primary_intent = "general_chat"
    THEN Result("reject", "policy_rejection", "REJECT", FALSE,
                "RULE_NEG1_GENERAL_CHAT", FALSE)
    ELSE IF turn >= turn_limit
    THEN Result("manual", "gather_info", "INSPECTION", TRUE,
                "RULE_3_TURN_LIMIT", FALSE)
    ELSE IF misuse_flag
    THEN HandleMisuse(days_used)
    ELSE IF primary_intent \in {"refund_request", "return_request"}
    THEN HandleReturnRefund(days_used)
    ELSE IF primary_intent \in {"repair_request", "replacement_request"}
    THEN HandleRepairReplacement(days_used, inv)
    ELSE Result("manual", "gather_info", "INSPECTION", TRUE,
                "DEFAULT_CLARIFICATION", FALSE)

\* the rule table of make_decision below the purchase-date check
DecisionRules(primary_intent, misuse_flag, days_used, inv, turn) ==
    IF primary_intent = "general_chat"
    THEN Result("reject", "policy_rejection", "REJECT", FALSE,
                "RULE_NEG1_GENERAL_CHAT", FALSE)
    ELSE IF turn >= turn_limit
    THEN Result("manual", "gather_info", "INSPECTION", TRUE,
                "RULE_3_TURN_LIMIT", FALSE)
    ELSE IF misuse_flag
    THEN HandleMisuse(days_used)
    ELSE IF primary_intent \in {"refund_request", "return_request"}
    THEN HandleReturnRefund(days_used)
    ELSE IF primary_intent \in {"repair_request", "replacement_request"}
    THEN HandleRepairReplacement(days_used, inv)
    ELSE Result("manual", "gather_info", "INSPECTION", FALSE,
                "DEFAULT_CLARIFICATION", FALSE)

MakeDecision_DateCheckAfterRules(purchase_date, analysis, inv, turn) ==
    LET primary_intent == Strip(OrGeneralChat(analysis.primary_intent))
        misuse_flag == Truthy(analysis.misuse_or_accident)
        days_used == DaysUsed(purchase_date)
    IN  IF days_used.none /\ ~(primary_intent \in {"repair_request", "replacement_request"})
        THEN Result("manual", "gather_info", "INSPECTION", TRUE,
                    "DATA_QUALITY_PURCHASE_DATE", FALSE)
        ELSE DecisionRules(primary_intent, misuse_flag, days_used.days, inv, turn)

MakeDecision_TurnLimitLast(purchase_date, analysis, inv, turn) ==
    LET primary_intent == Strip(OrGeneralChat(analysis.primary_intent))
        misuse_flag == Truthy(analysis.misuse_or_accident)
        days_used == DaysUsed(purchase_date)
    IN  IF days_used.none
        THEN Result("manual", "gather_info", "INSPECTION", TRUE,
                    "DATA_QUALITY_PURCHASE_DATE", FALSE)
        ELSE IF misuse_flag \/ primary_intent \in {"refund_request", "return_request",
                                                   "repair_request", "replacement_request"}
        THEN DecisionRules(primary_intent, misuse_flag, days_used.days, inv, 0)
        ELSE DecisionRules(primary_intent, misuse_flag, days_used.days, inv, turn)

\* StrideDecisionEngine.make_decision
MakeDecision(purchase_date, analysis, inv, turn) ==
    LET primary_intent == Strip(OrGeneralChat(analysis.primary_intent))
        misuse_flag == Truthy(analysis.misuse_or_accident)
        days_used == DaysUsed(purchase_date)
    IN  IF days_used.none
        THEN Result("manual", "gather_info", "INSPECTION", TRUE,
                    "DATA_QUALITY_PURCHASE_DATE", FALSE)
        ELSE DecisionRules(primary_intent, misuse_flag, days_used.days, inv, turn)

(***************************************************************************)
(* Direct engine calls (tests/test_decision_engine.py call it this way)    *)
(***************************************************************************)
PurchaseDates ==
    {PurchaseDate("missing", 0), PurchaseDate("unparseable", 0)}
    \cup {PurchaseDate("date", d) : d \in (0 - 1)..MaxDays}

NoCall == [called |-> FALSE]

\* no /chat request is being served, no process_ticket call is in progress
\* and the order has no ticket
NoRequests ==
    /\ tickets = <<>>
    /\ guard = <<>>
    /\ api = NoCall

\* no direct call of make_decision, _normalize_signal or
\* retrieve_policy_chunks was made
NoDirectCalls ==
    /\ decision_in = NoCall
    /\ decision_out = NoCall
    /\ normalize_in = NoCall
    /\ normalize_out = NoValue
    /\ retrieve_in = NoCall
    /\ retrieve_out = NoCall
    /\ NoRequests

\* the argument tuples of a direct call
DecisionInputs ==
    {[called |-> FALSE, purchase_date |-> pd,
      analysis |-> [primary_intent |-> pi, misuse_or_accident |-> mu],
      inventory_available |-> inv, turn_count |-> t] :
        pd \in PurchaseDates, pi \in PrimaryIntentValues, mu \in MisuseValues,
        inv \in BOOLEAN, t \in 0..MaxEngineTurn}

EngineInit ==
    /\ decision_in \in DecisionInputs
    /\ decision_out = NoCall
    /\ normalize_in = NoCall
    /\ normalize_out = NoValue
    /\ retrieve_in = NoCall
    /\ retrieve_out = NoCall
    /\ NoRequests

\* engine.make_decision(order_data=..., inventory_available=..., turn_count=..., analysis=...)
MakeDecisionCall ==
    /\ ~decision_in.called
    /\ decision_in' = [decision_in EXCEPT !.called = TRUE]
    /\ decision_out' = MakeDecision(decision_in.purchase_date, decision_in.analysis,
                                    decision_in.inventory_available, decision_in.turn_count)
    /\ UNCHANGED <<pipeline_vars, normalizer_vars, retriever_vars, service_vars>>

(***************************************************************************)
(* Services/rag_pipeline.py: text handling of _normalize_signal            *)
(* A text is a sequence of one-character strings.                          *)
(***************************************************************************)
TicketSignal == {"REJECT", "INSPECTION", "REPAIR", "RETURN", "REPLACEMENT", "PAID_REPAIR"}

LowerCase == <<"a","b","c","d","e","f","g","h","i","j","k","l","m",
               "n","o","p","q","r","s","t","u","v","w","x","y","z">>
UpperCase == <<"A","B","C","D","E","F","G","H","I","J","K","L","M",
               "N","O","P","Q","R","S","T","U","V","W","X","Y","Z">>

\* str.upper(), one character
UpperChar(c) ==
    IF \E i \in 1..26 : LowerCase[i] = c
    THEN UpperCase[CHOOSE i \in 1..26 : LowerCase[i] = c]
    ELSE c

\* str.upper()
Upper(text) == [i \in 1..Len(text) |-> UpperChar(text[i])]

RECURSIVE StripLeft(_)
StripLeft(text) ==
    IF text # <<>> /\ Head(text) = " " THEN StripLeft(Tail(text)) ELSE text

RECURSIVE StripRight(_)
StripRight(text) ==
    IF text # <<>> /\ text[Len(text)] = " "
    THEN StripRight(SubSeq(text, 1, Len(text) - 1))
    ELSE text

\* str.strip()
StripText(text) == StripRight(StripLeft(text))

\* str.replace(old, "_") for a one-character old
ReplaceChar(text, old) == [i \in 1..Len(text) |-> IF text[i] = old THEN "_" ELSE text[i]]

\* str.replace("__", "_"): one left-to-right pass over non-overlapping matches
RECURSIVE CollapseDouble(_)
CollapseDouble(text) ==
    IF Len(text) < 2 THEN text
    ELSE IF text[1] = "_" /\ text[2] = "_"
    THEN <<"_">> \o CollapseDouble(SubSeq(text, 3, Len(text)))
    ELSE <<text[1]>> \o CollapseDouble(Tail(text))

\* `sub in text`
Contains(sub, text) ==
    \E i \in 1..(Len(text) - Len(sub) + 1) : SubSeq(text, i, i + Len(sub) - 1) = sub

T_PAIDREPAIR == <<"P","A","I","D","R","E","P","A","I","R">>
T_PAID_REPAIR == <<"P","A","I","D","_","R","E","P","A","I","R">>
T_INSPECT == <<"I","N","S","P","E","C","T">>
T_INSPECTION == <<"I","N","S","P","E","C","T","I","O","N">>
T_RETURN == <<"R","E","T","U","R","N">>
T_REPLAC == <<"R","E","P","L","A","C">>
T_REPLACEMENT == <<"R","E","P","L","A","C","E","M","E","N","T">>
T_REPAIR == <<"R","E","P","A","I","R">>
T_PAID == <<"P","A","I","D">>
T_REJECT == <<"R","E","J","E","C","T">>

\* the aliases dict of _normalize_signal
Aliases(text) ==
    IF text = T_PAIDREPAIR THEN T_PAID_REPAIR
    ELSE IF text = T_INSPECT THEN T_INSPECTION
    ELSE text

MatchSignal_ReturnFirst(text) ==
    IF Contains(T_RETURN, text) THEN "RETURN"
    ELSE IF Contains(T_REPLAC, text) THEN "REPLACEMENT"
    ELSE IF Contains(T_REPAIR, text) /\ Contains(T_PAID, text) THEN "PAID_REPAIR"
    ELSE IF Contains(T_REPAIR, text) THEN "REPAIR"
    ELSE IF Contains(T_REJECT, text) THEN "REJECT"
    ELSE "INSPECTION"

MatchSignal_RepairBeforePaid(text) ==
    IF Contains(T_RETURN, text) /\ ~Contains(T_REPLAC, text) THEN "RETURN"
    ELSE IF Contains(T_REPLAC, text) THEN "REPLACEMENT"
    ELSE IF Contains(T_REPAIR, text) THEN "REPAIR"
    ELSE IF Contains(T_REPAIR, text) /\ Contains(T_PAID, text) THEN "PAID_REPAIR"
    ELSE IF Contains(T_REJECT, text) THEN "REJECT"
    ELSE "INSPECTION"

\* the substring tests of _normalize_signal, in the order the code makes them
MatchSignal(text) ==
    IF Contains(T_RETURN, text) /\ ~Contains(T_REPLAC, text) THEN "RETURN"
    ELSE IF Contains(T_REPLAC, text) THEN "REPLACEMENT"
    ELSE IF Contains(T_REPAIR, text) /\ Contains(T_PAID, text) THEN "PAID_REPAIR"
    ELSE IF Contains(T_REPAIR, text) THEN "REPAIR"
    ELSE IF Contains(T_REJECT, text) THEN "REJECT"
    ELSE "INSPECTION"

\* STRIDERAGPipeline._normalize_signal for a string argument
NormalizeSignal(raw) ==
    LET t1 == ReplaceChar(ReplaceChar(Upper(StripText(raw)), "-"), " ")
        t2 == CollapseDouble(t1)
    IN  MatchSignal(Aliases(t2))

\* STRIDERAGPipeline._normalize_signal: None, or a string
NormalizeRaw(raw) ==
    IF raw.none THEN "INSPECTION" ELSE NormalizeSignal(raw.text)

\* the characters of the ticket_type strings the engine emits
Spell(ticket_type) ==
    CASE ticket_type = "REJECT" -> T_REJECT
      [] ticket_type = "INSPECTION" -> T_INSPECTION
      [] ticket_type = "RETURN" -> T_RETURN
      [] ticket_type = "REPAIR" -> T_REPAIR
      [] ticket_type = "REPLACEMENT" -> T_REPLACEMENT
      [] ticket_type = "PAID_REPAIR" -> T_PAID_REPAIR

(***************************************************************************)
(* Services/rag_pipeline.py: the pipeline                                  *)
(***************************************************************************)
Order(outlet_id, product_id, size, purchase_date) ==
    [outlet_id |-> outlet_id, product_id |-> product_id, size |-> size,
     purchase_date |-> purchase_date]

\* _load_order() when the order is not in the cache: {}
EmptyOrder == Order(NoValue, NoValue, NoValue, PurchaseDate("missing", 0))

\* purchase age of the cached order a conversation is about (the order_stub
\* of tests/test_rag_pipeline.py)
OrderAge == 2

\* orders _load_order() can return
Orders ==
    {EmptyOrder,
     Order("OUT1", "P1", NoValue, PurchaseDate("date", OrderAge)),
     Order("OUT1", "P1", "9", PurchaseDate("unparseable", 0)),
     Order("OUT1", "P1", "9", PurchaseDate("date", OrderAge))}


\* what analyzer.analyse(user_text) returns.  The pipeline reads the key
\* "intent", the engine the keys "primary_intent" and "misuse_or_accident".
Analysis(intent, primary_intent, misuse) ==
    [intent |-> intent, primary_intent |-> primary_intent, misuse_or_accident |-> misuse]

Analyses ==
    {Analysis("general_chat", "general_chat", "False"),
     Analysis("replacement_request", "replacement_request", "False"),
     Analysis("refund_request", "refund_request", "False"),
     Analysis("repair_request", "repair_request", "True"),
     Analysis("general_chat", "repair_request", "False"),
     Analysis(NoValue, "general_chat", "False")}

\* outcome of analyzer.analyse: a dict, or an exception
AnalyzerOutcomes ==
    {[raised |-> TRUE, analysis |-> Analysis(NoValue, NoValue, NoValue)]}
    \cup {[raised |-> FALSE, analysis |-> a] : a \in Analyses}

\* outcome of is_inventory_available(outlet_id, product_id, size)
InventoryOutcomes == {"available", "unavailable", "raised"}

\* STRIDERAGPipeline._check_inventory_safe
CheckInventorySafe(outcome) == outcome = "available"

P_Replacement == <<"R","e","p","l","a","c","e","m","e","n","t">>

P_Paid_Repair == <<"P","a","i","d","_","R","e","p","a","i","r">>
P_Return == <<"R","e","t","u","r","n">>
P_Repair == <<"R","e","p","a","i","r">>
P_Inspection == <<"I","n","s","p","e","c","t","i","o","n">>
P_Reject == <<"R","e","j","e","c","t">>

\* policy_type labels of the policy store
PolicyTypes == {P_Replacement}

\* every policy_type label rag/retriever.py fetches
StorePolicyTypes == {P_Paid_Repair, P_Return, P_Replacement, P_Repair,
                     P_Inspection, P_Reject}

\* outcome of retrieve_policy(...): an exception, no match, or the best policy
RetrieverOutcomes ==
    {[kind |-> "raised", policy_type |-> <<>>, match_score |-> NoValue],
     [kind |-> "none", policy_type |-> <<>>, match_score |-> NoValue]}
    \cup {[kind |-> "policy", policy_type |-> pt, match_score |-> "score"] :
            pt \in PolicyTypes}

\* the same, over every label of the store
StoreRetrieverOutcomes ==
    {[kind |-> "raised", policy_type |-> <<>>, match_score |-> NoValue],
     [kind |-> "none", policy_type |-> <<>>, match_score |-> NoValue]}
    \cup {[kind |-> "policy", policy_type |-> pt, match_score |-> "score"] :
            pt \in StorePolicyTypes}

\* _normalize_signal(str(policy_type).upper()) for the labels of the store
PolicySignal == [pt \in PolicyTypes \cup StorePolicyTypes |-> NormalizeSignal(Upper(pt))]

\* _normalize_signal(engine_result.get("ticket_type"))
EngineSignal == [t \in TicketSignal |-> NormalizeSignal(Spell(t))]

RunRetriever_NoMatchRejects(outcome) ==
    IF outcome.kind = "none"
    THEN [signal |-> "REJECT", confidence |-> NoValue]
    ELSE [signal |-> PolicySignal[outcome.policy_type],
          confidence |-> outcome.match_score]

\* STRIDERAGPipeline._run_retriever, when retrieve_policy returned
RunRetriever(outcome) ==
    IF outcome.kind = "none"
    THEN [signal |-> "INSPECTION", confidence |-> NoValue]
    ELSE [signal |-> PolicySignal[outcome.policy_type],
          confidence |-> outcome.match_score]

PipelineSignal_PreviousTurn(source, value, turn, confidence) ==
    [source |-> source, value |-> value, turn |-> turn - 1, confidence |-> confidence]

\* the PipelineSignal dataclass
PipelineSignal(source, value, turn, confidence) ==
    [source |-> source, value |-> value, turn |-> turn, confidence |-> confidence]

RECURSIVE WeightedVotes_RetrieverHeavier(_)
WeightedVotes_RetrieverHeavier(ledger) ==
    IF ledger = <<>> THEN <<>>
    ELSE (IF Head(ledger).source = "retriever"
          THEN <<Head(ledger).value, Head(ledger).value>>
          ELSE <<Head(ledger).value>>) \o WeightedVotes_RetrieverHeavier(Tail(ledger))

RECURSIVE WeightedVotes_Unweighted(_)
WeightedVotes_Unweighted(ledger) ==
    IF ledger = <<>> THEN <<>>
    ELSE <<Head(ledger).value>> \o WeightedVotes_Unweighted(Tail(ledger))

RECURSIVE WeightedVotes_LaterTurnsHeavier(_)
WeightedVotes_LaterTurnsHeavier(ledger) ==
    IF ledger = <<>> THEN <<>>
    ELSE (IF Head(ledger).source = "engine" \/ Head(ledger).turn >= 2
          THEN <<Head(ledger).value, Head(ledger).value>>
          ELSE <<Head(ledger).value>>) \o WeightedVotes_LaterTurnsHeavier(Tail(ledger))

\* weighted_votes of _resolve_final_ticket: engine twice, retriever once
RECURSIVE WeightedVotes(_)
WeightedVotes(ledger) ==
    IF ledger = <<>> THEN <<>>
    ELSE (IF Head(ledger).source = "engine"
          THEN <<Head(ledger).value, Head(ledger).value>>
          ELSE <<Head(ledger).value>>) \o WeightedVotes(Tail(ledger))

\* Counter(weighted_votes)[v]
VoteCount(votes, v) == Cardinality({i \in DOMAIN votes : votes[i] = v})

MostCommon_LastInserted(votes) ==
    LET counts == [v \in TicketSignal |-> VoteCount(votes, v)]
        top == CHOOSE n \in 0..Len(votes) :
                  /\ \E v \in TicketSignal : counts[v] = n
                  /\ \A v \in TicketSignal : counts[v] <= n
        last == CHOOSE i \in DOMAIN votes :
                    /\ counts[votes[i]] = top
                    /\ \A j \in (i + 1)..Len(votes) : counts[votes[j]] < top
    IN  votes[last]

\* Counter(weighted_votes).most_common(1)[0][0]: the largest count, the
\* value inserted first among equal counts
MostCommon(votes) ==
    LET counts == [v \in TicketSignal |-> VoteCount(votes, v)]
        top == CHOOSE n \in 0..Len(votes) :
                  /\ \E v \in TicketSignal : counts[v] = n
                  /\ \A v \in TicketSignal : counts[v] <= n
        first == CHOOSE i \in DOMAIN votes :
                    /\ counts[votes[i]] = top
                    /\ \A j \in 1..(i - 1) : counts[votes[j]] < top
    IN  votes[first]

ResolveFinalTicket_RepairByPlurality(ledger) ==
    LET votes == WeightedVotes(ledger)
        unique == {votes[i] : i \in DOMAIN votes}
    IN  IF unique = {"REJECT"} THEN "REJECT"
        ELSE IF unique = {} THEN "INSPECTION"
        ELSE IF unique = {"RETURN", "REPLACEMENT"} THEN "REPLACEMENT"
        ELSE IF VoteCount(votes, "PAID_REPAIR") = Len(votes) THEN "PAID_REPAIR"
        ELSE MostCommon(votes)

ResolveFinalTicket_LastTurnOnly(ledger) ==
    LET last == SelectSeq(ledger, LAMBDA sig : sig.turn = ledger[Len(ledger)].turn)
        votes == WeightedVotes(last)
        unique == {votes[i] : i \in DOMAIN votes}
    IN  IF unique = {"REJECT"} THEN "REJECT"
        ELSE IF unique \subseteq {"REPAIR", "INSPECTION"}
        THEN (IF VoteCount(votes, "REPAIR") >= 3 THEN "REPAIR" ELSE "INSPECTION")
        ELSE IF unique = {"RETURN", "REPLACEMENT"} THEN "REPLACEMENT"
        ELSE IF VoteCount(votes, "PAID_REPAIR") = Len(votes) THEN "PAID_REPAIR"
        ELSE MostCommon(votes)

ResolveFinalTicket_NoReplacementPrecedence(ledger) ==
    LET votes == WeightedVotes(ledger)
        unique == {votes[i] : i \in DOMAIN votes}
    IN  IF unique = {"REJECT"} THEN "REJECT"
        ELSE IF unique \subseteq {"REPAIR", "INSPECTION"}
        THEN (IF VoteCount(votes, "REPAIR") >= 3 THEN "REPAIR" ELSE "INSPECTION")
        ELSE IF VoteCount(votes, "PAID_REPAIR") = Len(votes) THEN "PAID_REPAIR"
        ELSE MostCommon(votes)

ResolveFinalTicket_RequiresTwoTurns(ledger) ==
    LET votes == WeightedVotes(ledger)
        unique == {votes[i] : i \in DOMAIN votes}
    IN  IF Cardinality({ledger[i].turn : i \in DOMAIN ledger}) < 2 THEN "<raised>"
        ELSE IF unique = {"REJECT"} THEN "REJECT"
        ELSE IF unique \subseteq {"REPAIR", "INSPECTION"}
        THEN (IF VoteCount(votes, "REPAIR") >= 3 THEN "REPAIR" ELSE "INSPECTION")
        ELSE IF unique = {"RETURN", "REPLACEMENT"} THEN "REPLACEMENT"
        ELSE IF VoteCount(votes, "PAID_REPAIR") = Len(votes) THEN "PAID_REPAIR"
        ELSE MostCommon(votes)

\* STRIDERAGPipeline._resolve_final_ticket
ResolveFinalTicket(ledger) ==
    LET votes == WeightedVotes(ledger)
        unique == {votes[i] : i \in DOMAIN votes}
    IN  IF unique = {"REJECT"} THEN "REJECT"
        ELSE IF unique \subseteq {"REPAIR", "INSPECTION"}
        THEN (IF VoteCount(votes, "REPAIR") >= 3 THEN "REPAIR" ELSE "INSPECTION")
        ELSE IF unique = {"RETURN", "REPLACEMENT"} THEN "REPLACEMENT"
        ELSE IF VoteCount(votes, "PAID_REPAIR") = Len(votes) THEN "PAID_REPAIR"
        ELSE MostCommon(votes)

InventoryGate_NoOverride(final_ticket, stock) == final_ticket

\* the safety override of process_turn: replacement requires inventory
InventoryGate(final_ticket, stock) ==
    IF final_ticket = "REPLACEMENT" /\ ~stock THEN "INSPECTION" ELSE final_ticket

\* the dict process_turn returns; absent keys are NoValue.  Its "signals"
\* key is _signals_for_response(), the ledger as it is at the return.
Response(final_ticket, needs_clarification, chat_closed, tc, decision_reason) ==
    [final_ticket |-> final_ticket,
     needs_clarification |-> needs_clarification,
     chat_closed |-> chat_closed,
     turn_count |-> tc,
     decision_reason |-> decision_reason]

ManualFallback_NoReason(reason, tc) ==
    Response("INSPECTION", NoValue, NoValue, tc, NoValue)

\* STRIDERAGPipeline._manual_fallback
ManualFallback(reason, tc) ==
    Response("INSPECTION", NoValue, NoValue, tc, reason)

\* what a process_turn call did
Trace(kind, inventory_check, arbitrated, resolved) ==
    [kind |-> kind,                       \* which return statement ended the call
     inventory_check |-> inventory_check, \* outcome of this call's inventory check
     arbitrated |-> arbitrated,           \* _resolve_final_ticket ran
     resolved |-> resolved]               \* what it returned, before the override

GeneralChatCountAfter_NoReset(intent, count) ==
    IF intent # "general_chat" THEN count ELSE count + 1

\* general_chat_count as _handle_general_chat_if_needed leaves it
GeneralChatCountAfter(intent, count) ==
    IF intent # "general_chat" THEN 0 ELSE count + 1

GeneralChatResponse_Clarifies(count, tc) ==
    IF count >= 2
    THEN Response("GCD", NoValue, "True", tc, "Repeated general chat")
    ELSE Response("T1", "True", NoValue, tc, NoValue)

\* the response _handle_general_chat_if_needed builds for a general-chat
\* turn, count being the incremented general_chat_count
GeneralChatResponse(count, tc) ==
    IF count >= 2
    THEN Response("GCD", NoValue, "True", tc, "Repeated general chat")
    ELSE Response("GCD", NoValue, "False", tc, "General chat detected")

IsClarificationTurn_Never(tc) == FALSE

IsClarificationTurn_UpToTwo(tc) == tc <= 2

\* `if self.turn_count == 1`: the clarification stage, no arbitration
IsClarificationTurn(tc) == tc = 1

HasMinimumOrderContext_OutletOnly(o) == o.outlet_id # NoValue

HasMinimumOrderContext_SizeOptional(o) ==
    /\ o.outlet_id # NoValue
    /\ o.product_id # NoValue

\* STRIDERAGPipeline._has_minimum_order_context
HasMinimumOrderContext(o) ==
    /\ o.outlet_id # NoValue
    /\ o.product_id # NoValue
    /\ o.size # NoValue

\* the pipeline as __init__ leaves it, for the loaded order o
Constructed(o) ==
    /\ order = o
    /\ turn_count = 0
    /\ general_chat_count = 0
    /\ inventory_available = NoValue
    /\ signals = <<>>
    /\ response = Response(NoValue, NoValue, NoValue, 0, NoValue)
    /\ trace = Trace("none", "none", FALSE, NoValue)
    /\ history = [substantive_calls |-> 0, arb_runs |-> 0]

\* STRIDERAGPipeline.__init__
Init ==
    /\ \E o \in Orders : Constructed(o)
    /\ NoDirectCalls

\* process_turn from `self.turn_count += 1` on: order context is present
SubstantiveTurn(analysis, inv, ret) ==
    LET tc == turn_count + 1
        stock == CheckInventorySafe(inv)
    IN  /\ turn_count' = tc
        /\ inventory_available' = (IF stock THEN "True" ELSE "False")
        /\ IF ret.kind = "raised"
           THEN \* retrieve_policy raised: caught at the end of process_turn
                /\ response' = ManualFallback("Error occurred, fallback to manual inspection.", tc)
                /\ trace' = Trace("turn_error", inv, FALSE, NoValue)
                /\ history' = [history EXCEPT !.substantive_calls = @ + 1]
                /\ UNCHANGED signals
           ELSE LET retrieved == RunRetriever(ret)
                    engine_result == MakeDecision(order.purchase_date, analysis, stock, tc)
                    engine_signal == EngineSignal[engine_result.ticket_type]
                    ledger == signals \o
                        <<PipelineSignal("retriever", retrieved.signal, tc, retrieved.confidence),
                          PipelineSignal("engine", engine_signal, tc, NoValue)>>
                IN  /\ signals' = ledger
                    /\ IF IsClarificationTurn(tc)
                       THEN \* clarification stage
                            /\ response' = Response("T1", "True", NoValue, tc, NoValue)
                            /\ trace' = Trace("clarification", inv, FALSE, NoValue)
                            /\ history' = [history EXCEPT !.substantive_calls = @ + 1]
                       ELSE LET resolved == ResolveFinalTicket(ledger)
                            IN  /\ response' = Response(InventoryGate(resolved, stock),
                                                        NoValue, NoValue, tc,
                                                        engine_result.rule_code)
                                /\ trace' = Trace("arbitrated", inv, TRUE, resolved)
                                /\ history' = [history EXCEPT !.substantive_calls = @ + 1,
                                                              !.arb_runs = @ + 1]

\* process_turn with the outcomes of its collaborators drawn from the given sets
ProcessTurnOn(analyzer_outcomes, inventory_outcomes, retriever_outcomes) ==
    \E an \in analyzer_outcomes, inv \in inventory_outcomes, ret \in retriever_outcomes :
        /\ UNCHANGED <<order, decision_in, decision_out, normalize_in, normalize_out,
                       retrieve_in, retrieve_out, tickets, guard, api>>
        /\ IF an.raised
           THEN \* analyse() raised: caught at the end of process_turn
                /\ response' = ManualFallback("Error occurred, fallback to manual inspection.",
                                              turn_count)
                /\ trace' = Trace("analyzer_error", "none", FALSE, NoValue)
                /\ UNCHANGED <<turn_count, general_chat_count, inventory_available,
                               signals, history>>
           ELSE IF an.analysis.intent = "general_chat"
           THEN \* _handle_general_chat_if_needed returned a response
                /\ general_chat_count < MaxGeneralChat
                /\ general_chat_count' = GeneralChatCountAfter(an.analysis.intent,
                                                               general_chat_count)
                /\ response' = GeneralChatResponse(general_chat_count', turn_count)
                /\ trace' = Trace("general_chat", "none", FALSE, NoValue)
                /\ UNCHANGED <<turn_count, inventory_available, signals, history>>
           ELSE /\ history.substantive_calls < MaxTurns
                /\ general_chat_count' = GeneralChatCountAfter(an.analysis.intent,
                                                               general_chat_count)
                /\ IF ~HasMinimumOrderContext(order)
                   THEN /\ response' = ManualFallback(
                                "Order not found or missing required fields (outlet_id/product_id/size).",
                                turn_count)
                        /\ trace' = Trace("no_order", "none", FALSE, NoValue)
                        /\ history' = [history EXCEPT !.substantive_calls = @ + 1]
                        /\ UNCHANGED <<turn_count, inventory_available, signals>>
                   ELSE SubstantiveTurn(an.analysis, inv, ret)

\* STRIDERAGPipeline.process_turn
ProcessTurn == ProcessTurnOn(AnalyzerOutcomes, InventoryOutcomes, RetrieverOutcomes)

Next == ProcessTurn

Spec == Init /\ [][Next]_vars

(***************************************************************************)
(* EngineSpec: make_decision called directly, no pipeline involved         *)
(***************************************************************************)
EngineSpecInit ==
    /\ EngineInit
    /\ Constructed(EmptyOrder)

EngineNext == MakeDecisionCall

EngineSpec == EngineSpecInit /\ [][EngineNext]_vars

(***************************************************************************)
(* ArbSpec: _resolve_final_ticket called directly on a pipeline whose      *)
(* ledger is drawn from the ledgers process_turn can have built            *)
(***************************************************************************)
\* the (retriever value, engine value) a turn records, in that order
SignalPairs == TicketSignal \X TicketSignal

\* the recorded turns of a conversation, oldest first
TurnLists == UNION {[1..n -> SignalPairs] : n \in 0..MaxLedgerTurns}

\* how the turns were tagged: the turn number of the first recorded turn
\* (2 when the retriever raised on turn 1) and the retriever's match_score
LedgerTags == {[first |-> 1, confidence |-> "score"],
               [first |-> 2, confidence |-> NoValue]}

\* the ledger the two _record_signal calls of each turn leave
LedgerOf(turns, tags) ==
    [i \in 1..(2 * Len(turns)) |->
        LET t == (i + 1) \div 2
        IN  IF i % 2 = 1
            THEN PipelineSignal("retriever", turns[t][1], tags.first + t - 1, tags.confidence)
            ELSE PipelineSignal("engine", turns[t][2], tags.first + t - 1, NoValue)]

Ledgers == {LedgerOf(turns, tags) : turns \in TurnLists, tags \in LedgerTags}

\* a pipeline that has recorded the ledger
ArbInit ==
    /\ order = Order("OUT1", "P1", "9", PurchaseDate("date", OrderAge))
    /\ signals \in Ledgers
    /\ turn_count = (IF signals = <<>> THEN 0 ELSE signals[Len(signals)].turn)
    /\ general_chat_count = 0
    /\ inventory_available = (IF signals = <<>> THEN NoValue ELSE "True")
    /\ response = Response(NoValue, NoValue, NoValue, 0, NoValue)
    /\ trace = Trace("none", "none", FALSE, NoValue)
    /\ history = [substantive_calls |-> 0, arb_runs |-> 0]
    /\ NoDirectCalls

\* pipeline._resolve_final_ticket()
ResolveFinalTicketCall ==
    /\ history.arb_runs < MaxResolveCalls
    /\ trace' = Trace("resolve_call", "none", TRUE, ResolveFinalTicket(signals))
    /\ history' = [history EXCEPT !.arb_runs = @ + 1]
    /\ UNCHANGED <<order, turn_count, general_chat_count, inventory_available,
                   signals, response, decision_in, decision_out,
                   normalize_in, normalize_out, retrieve_in, retrieve_out,
                   tickets, guard, api>>

ArbNext == ResolveFinalTicketCall

ArbSpec == ArbInit /\ [][ArbNext]_vars

(***************************************************************************)
(* ReturnScenarioSpec: a conversation of substantive turns about the order *)
(* bought OrderAge days ago, the retriever drawing on the whole store      *)
(***************************************************************************)
\* analyse() returned an analysis the pipeline does not divert as general chat
SubstantiveAnalyzerOutcomes ==
    {o \in AnalyzerOutcomes : ~o.raised /\ o.analysis.intent # "general_chat"}

ReturnScenarioInit ==
    /\ Constructed(Order("OUT1", "P1", "9", PurchaseDate("date", OrderAge)))
    /\ NoDirectCalls

ReturnScenarioTurn ==
    /\ turn_count < MaxScenarioTurns
    /\ ProcessTurnOn(SubstantiveAnalyzerOutcomes, InventoryOutcomes, StoreRetrieverOutcomes)

ReturnScenarioNext == ReturnScenarioTurn

ReturnScenarioSpec == ReturnScenarioInit /\ [][ReturnScenarioNext]_vars

(***************************************************************************)
(* LateRefundSpec: a conversation whose substantive turns are all refund   *)
(* requests without misuse, about an order past the return window          *)
(***************************************************************************)
\* purchase ages just past the return window
LateOrderAges == {return_window_days + 1, return_window_days + 2}

RefundAnalyzerOutcomes ==
    {[raised |-> FALSE, analysis |-> Analysis("refund_request", "refund_request", "False")],
     [raised |-> FALSE, analysis |-> Analysis("refund_request", "refund_request", NoValue)],
     [raised |-> FALSE, analysis |-> Analysis("general_chat", "general_chat", "False")]}

LateRefundInit ==
    /\ \E age \in LateOrderAges :
            Constructed(Order("OUT1", "P1", "9", PurchaseDate("date", age)))
    /\ NoDirectCalls

LateRefundTurn ==
    /\ turn_count < MaxScenarioTurns
    /\ ProcessTurnOn(RefundAnalyzerOutcomes, InventoryOutcomes, StoreRetrieverOutcomes)

LateRefundNext == LateRefundTurn

LateRefundSpec == LateRefundInit /\ [][LateRefundNext]_vars

(***************************************************************************)
(* PrimaryChatSpec: a conversation whose every analysis has primary_intent *)
(* general_chat, with or without the key "intent" the pipeline reads       *)
(***************************************************************************)
PrimaryChatAnalyzerOutcomes ==
    {[raised |-> FALSE, analysis |-> Analysis("general_chat", "general_chat", "False")],
     [raised |-> FALSE, analysis |-> Analysis(NoValue, "general_chat", "False")]}

PrimaryChatInit ==
    /\ Constructed(Order("OUT1", "P1", "9", PurchaseDate("date", OrderAge)))
    /\ NoDirectCalls

PrimaryChatTurn ==
    /\ turn_count < MaxScenarioTurns
    /\ ProcessTurnOn(PrimaryChatAnalyzerOutcomes, InventoryOutcomes, StoreRetrieverOutcomes)

PrimaryChatNext == PrimaryChatTurn

PrimaryChatSpec == PrimaryChatInit /\ [][PrimaryChatNext]_vars

(***************************************************************************)
(* NoMatchSpec: a conversation in which retrieve_policy returns None on    *)
(* every turn                                                              *)
(***************************************************************************)
NoMatchRetrieverOutcomes ==
    {[kind |-> "none", policy_type |-> <<>>, match_score |-> NoValue]}

NoMatchInit ==
    /\ Constructed(Order("OUT1", "P1", "9", PurchaseDate("date", OrderAge)))
    /\ NoDirectCalls

NoMatchTurn == ProcessTurnOn(AnalyzerOutcomes, InventoryOutcomes, NoMatchRetrieverOutcomes)

NoMatchNext == NoMatchTurn

NoMatchSpec == NoMatchInit /\ [][NoMatchNext]_vars

(***************************************************************************)
(* NormalizeSpec: _normalize_signal called directly on tokens made of the  *)
(* keywords it looks for                                                   *)
(***************************************************************************)
T_POLICY == <<"P","O","L","I","C","Y">>

\* the words a token is made of: the keywords of the substring tests, the
\* alias INSPECT, and a word that is no keyword
Vocabulary == <<T_RETURN, T_REPLACEMENT, T_PAID, T_REPAIR, T_REJECT, T_INSPECT, T_POLICY>>

\* the words of the vocabulary whose index is in chosen, from index i on
RECURSIVE Selected(_, _)
Selected(chosen, i) ==
    IF i > Len(Vocabulary) THEN <<>>
    ELSE (IF i \in chosen THEN <<Vocabulary[i]>> ELSE <<>>) \o Selected(chosen, i + 1)

Reverse(seq) == [i \in 1..Len(seq) |-> seq[Len(seq) + 1 - i]]

\* separator.join(words)
RECURSIVE JoinWords(_, _)
JoinWords(words, separator) ==
    IF words = <<>> THEN <<>>
    ELSE IF Len(words) = 1 THEN words[1]
    ELSE words[1] \o separator \o JoinWords(Tail(words), separator)

Separators == {<<>>, <<" ">>, <<"-">>, <<"_">>, <<" ", "-">>}

\* str.lower(), one character
LowerChar(c) ==
    IF \E i \in 1..26 : UpperCase[i] = c
    THEN LowerCase[CHOOSE i \in 1..26 : UpperCase[i] = c]
    ELSE c

\* str.lower()
Lower(text) == [i \in 1..Len(text) |-> LowerChar(text[i])]

\* the strings handed to _normalize_signal: any selection of the words, in
\* either order, joined by a separator, in upper or lower case, bare or
\* padded with blanks
Tokens ==
    {(IF padded THEN <<" ">> ELSE <<>>)
        \o (IF lower THEN Lower(JoinWords(IF reversed THEN Reverse(Selected(chosen, 1))
                                                      ELSE Selected(chosen, 1), separator))
                     ELSE JoinWords(IF reversed THEN Reverse(Selected(chosen, 1))
                                                ELSE Selected(chosen, 1), separator))
        \o (IF padded THEN <<" ", " ">> ELSE <<>>) :
        chosen \in SUBSET (1..Len(Vocabulary)), reversed \in BOOLEAN,
        separator \in Separators, lower \in BOOLEAN, padded \in BOOLEAN}

\* the arguments of a direct call: None, or a token
NormalizeInputs ==
    {[called |-> FALSE, none |-> TRUE, text |-> <<>>]}
    \cup {[called |-> FALSE, none |-> FALSE, text |-> t] : t \in Tokens}

NormalizeInit ==
    /\ Constructed(EmptyOrder)
    /\ decision_in = NoCall
    /\ decision_out = NoCall
    /\ normalize_in \in NormalizeInputs
    /\ normalize_out = NoValue
    /\ retrieve_in = NoCall
    /\ retrieve_out = NoCall
    /\ NoRequests

\* pipeline._normalize_signal(raw)
NormalizeSignalCall ==
    /\ ~normalize_in.called
    /\ normalize_in' = [normalize_in EXCEPT !.called = TRUE]
    /\ normalize_out' = NormalizeRaw(normalize_in)
    /\ UNCHANGED <<pipeline_vars, engine_vars, retriever_vars, service_vars>>

NormalizeNext == NormalizeSignalCall

NormalizeSpec == NormalizeInit /\ [][NormalizeNext]_vars

(***************************************************************************)
(* rag/retriever.py: retrieve_policy_chunks                                *)
(***************************************************************************)
\* metadata["max_days"]: an int, or None for a policy without upper bound
Limit(n) == [none |-> FALSE, days |-> n]

NoLimit == [none |-> TRUE, days |-> 0]

\* a row of policy_chunks: the policy_type and the metadata
\* policy_chunker.extract_metadata stored with it; similarity is the cosine
\* similarity (in tenths) of the row's embedding to the query of the call
PolicyRow(policy_type, min_days, max_days, eligible_intents, similarity) ==
    [policy_type |-> policy_type, min_days |-> min_days, max_days |-> max_days,
     eligible_intents |-> eligible_intents, similarity |-> similarity]

\* the row tests/test_retriever.py inserts, and one row for each policy_type
\* retrieve_policy_chunks fetches by name
PolicyCatalogue ==
    {PolicyRow("Return Policy", 0, Limit(7), {"return_request"}, 9),
     PolicyRow("Return", 0, Limit(7), {"return_request", "refund_request"}, 8),
     PolicyRow("Replacement", 0, Limit(7), {"replacement_request", "repair_request"}, 7),
     PolicyRow("Repair", 8, Limit(180), {"repair_request"}, 6),
     PolicyRow("Paid_Repair", 181, NoLimit, {"repair_request"}, 5),
     PolicyRow("Inspection", 0, NoLimit, {"inspection_request"}, 4)}

\* `days_used > 7` / `days_used <= 7`
RetrieverReturnDays == 7

\* `days_used <= 180`
RetrieverWarrantyDays == 180

\* the dict a policy is returned as; every policy gets score 1.0 (10 tenths)
RetrievedPolicy(policy_type, content) ==
    [policy_type |-> policy_type, content |-> content, score |-> 10]

\* reject_policy
RejectPolicy(reason) == RetrievedPolicy("Reject", reason)

\* fetch_policy
FetchPolicy(policy_type, rows) ==
    IF \E r \in rows : r.policy_type = policy_type
    THEN RetrievedPolicy(policy_type, "stored")
    ELSE RetrievedPolicy(policy_type, "Please visit the store for further assistance.")

\* retrieve_policy_chunks after the rows and days_used are known
RoutePolicy(rows, intent, days_used) ==
    IF intent \in {"refund_request", "return_unused", "replacement_request"}
       /\ days_used > RetrieverReturnDays
    THEN RejectPolicy("Request not allowed")
    ELSE IF intent = "misuse_or_wear"
    THEN (IF days_used <= RetrieverWarrantyDays
          THEN FetchPolicy("Paid_Repair", rows)
          ELSE RejectPolicy("Product shows signs of misuse or wear."))
    ELSE IF intent \in {"refund_request", "return_unused"}
            /\ days_used <= RetrieverReturnDays
    THEN FetchPolicy("Return", rows)
    ELSE IF intent = "replacement_request" /\ days_used <= RetrieverReturnDays
    THEN FetchPolicy("Replacement", rows)
    ELSE IF intent \in {"manufacturing_defect", "repair_request"}
    THEN (IF days_used <= RetrieverReturnDays THEN FetchPolicy("Replacement", rows)
          ELSE IF days_used <= RetrieverWarrantyDays THEN FetchPolicy("Repair", rows)
          ELSE FetchPolicy("Paid_Repair", rows))
    ELSE FetchPolicy("Inspection", rows)

\* retrieve_policy_chunks: a purchase_date that is None or does not parse
\* raises inside the try block
RetrievePolicyChunks(rows, purchase_date, analysis) ==
    IF purchase_date.kind # "date"
    THEN RejectPolicy("Internal error while retrieving policy.")
    ELSE RoutePolicy(rows, analysis.intent, purchase_date.age)

(***************************************************************************)
(* RetrieverSpec: retrieve_policy_chunks called directly                    *)
(***************************************************************************)
RetrieverOrderAges == {0, 3, 7, 8, 180, 181}

RetrieverPurchaseDates ==
    {PurchaseDate("missing", 0), PurchaseDate("unparseable", 0)}
    \cup {PurchaseDate("date", d) : d \in RetrieverOrderAges}

\* analyses of the query: analyze() gives primary_intent and no key
\* "intent"; the others carry the intent under the key the retriever reads
RetrieverAnalyses ==
    {Analysis(NoValue, p, "False") :
        p \in {"return_request", "refund_request", "replacement_request",
               "repair_request", "inspection_request"}}
    \cup {Analysis(p, p, "False") :
        p \in {"return_request", "refund_request", "replacement_request",
               "repair_request"}}
    \cup {Analysis("return_unused", "return_request", "False"),
          Analysis("misuse_or_wear", "repair_request", "True"),
          Analysis("manufacturing_defect", "repair_request", "False")}

RetrieveInputs ==
    {[called |-> FALSE, rows |-> rows, purchase_date |-> pd, analysis |-> an] :
        rows \in SUBSET PolicyCatalogue, pd \in RetrieverPurchaseDates,
        an \in RetrieverAnalyses}

RetrieverInit ==
    /\ Constructed(EmptyOrder)
    /\ decision_in = NoCall
    /\ decision_out = NoCall
    /\ normalize_in = NoCall
    /\ normalize_out = NoValue
    /\ retrieve_in \in RetrieveInputs
    /\ retrieve_out = NoCall
    /\ NoRequests

\* retrieve_policy_chunks(user_text, order_data, conn)
RetrievePolicyChunksCall ==
    /\ ~retrieve_in.called
    /\ retrieve_in' = [retrieve_in EXCEPT !.called = TRUE]
    /\ retrieve_out' = RetrievePolicyChunks(retrieve_in.rows, retrieve_in.purchase_date,
                                            retrieve_in.analysis)
    /\ UNCHANGED <<pipeline_vars, engine_vars, normalizer_vars, service_vars>>

RetrieverNext == RetrievePolicyChunksCall

RetrieverSpec == RetrieverInit /\ [][RetrieverNext]_vars

(***************************************************************************)
(* db/tickets.py and db/ticket_guard.py                                    *)
(***************************************************************************)
\* outcome of a statement sent to the database
DbOutcomes == {"ok", "error"}

\* status values a ticket row can have (api/staff.py allowed_statuses)
TicketStatuses == {"OPEN", "MANUAL_REVIEW", "RESOLVED", "CLOSED"}

\* status IN ('OPEN', 'MANUAL_REVIEW')
ActiveStatuses == {"OPEN", "MANUAL_REVIEW"}

\* a row of sales_schema.tickets for the order
TicketRow(ticket_type, status) == [ticket_type |-> ticket_type, status |-> status]

\* has_active_ticket: a database error is logged and answered with False
HasActiveTicket(rows, db) ==
    IF db = "error" THEN FALSE
    ELSE \E i \in DOMAIN rows : rows[i].status \in ActiveStatuses

\* create_ticket: inserts an OPEN row; a database error is logged and
\* leaves the table as it was
CreateTicket(rows, ticket_type, db) ==
    IF db = "error" THEN rows
    ELSE Append(rows, TicketRow(ticket_type, "OPEN"))

\* order_ticket_ctx: the keys process_ticket reads
TicketContext(order_id, decision, days) ==
    [order_id |-> order_id, decision |-> decision,
     days_since_purchase |-> days, warranty_days |-> warranty_days]

\* the dict process_ticket returns; created tells whether a row was inserted
TicketResult(allowed, reason, created) ==
    [allowed |-> allowed, reason |-> reason, created |-> created]

InternalError == TicketResult(FALSE, "Internal error while processing ticket", FALSE)

\* process_ticket below the active-ticket check: the business rules, up to
\* the create_ticket call.  A raising inventory lookup and a
\* days_since_purchase of None (None > int) end in the except branch.
GuardRules(ctx, inv) ==
    IF ctx.decision = "REPLACEMENT" /\ inv = "raised"
    THEN [outcome |-> "error", ticket_type |-> NoValue]
    ELSE IF ctx.days_since_purchase.none
    THEN [outcome |-> "error", ticket_type |-> NoValue]
    ELSE IF /\ ctx.days_since_purchase.days > ctx.warranty_days
            /\ ctx.decision \notin {"REPAIR", "INSPECTION"}
    THEN [outcome |-> "blocked", ticket_type |-> NoValue]
    ELSE [outcome |-> "create",
          ticket_type |-> IF ctx.decision = "REPLACEMENT" /\ inv = "unavailable"
                          THEN "INSPECTION" ELSE ctx.decision]

\* the rows process_ticket leaves once the check found no active ticket
RowsAfterGuard(rows, ctx, inv, db) ==
    LET rule == GuardRules(ctx, inv)
    IN  IF rule.outcome = "create" THEN CreateTicket(rows, rule.ticket_type, db)
        ELSE rows

\* the dict process_ticket returns once the check found no active ticket
ResultAfterGuard(ctx, inv, db) ==
    LET rule == GuardRules(ctx, inv)
    IN  IF rule.outcome = "error" THEN InternalError
        ELSE IF rule.outcome = "blocked" THEN TicketResult(FALSE, "Warranty expired", FALSE)
        ELSE TicketResult(TRUE, NoValue, db = "ok")

ActiveTicketExists == TicketResult(FALSE, "An active ticket already exists for this order", FALSE)

\* process_ticket run without interruption: the rows it leaves
ProcessTicketRows(rows, ctx, check_db, inv, db) ==
    IF ctx.order_id = NoValue THEN rows
    ELSE IF HasActiveTicket(rows, check_db) THEN rows
    ELSE RowsAfterGuard(rows, ctx, inv, db)

IsActionable_RejectIncluded(decision) ==
    decision \in {"REPAIR", "REPLACEMENT", "PAID_REPAIR", "RETURN", "INSPECTION", "REJECT"}

\* `decision in actionable_decisions` of save_conversation_summary_with_ticket
IsActionable(decision) ==
    decision \in {"REPAIR", "REPLACEMENT", "PAID_REPAIR", "RETURN", "INSPECTION"}

(***************************************************************************)
(* TicketSpec: workers of the service running process_ticket for the same  *)
(* order against the shared tickets table, and staff updating ticket status *)
(***************************************************************************)
\* worker processes of the service sharing the database
Workers == {1, 2}

\* the contexts /chat/respond hands to process_ticket for the order
TicketContexts ==
    {TicketContext("O1", d, [none |-> FALSE, days |-> a]) :
        d \in {"REPLACEMENT", "RETURN"}, a \in {OrderAge, warranty_days + 1}}

\* a worker that is not inside process_ticket; result is what its last call
\* returned
Idle(result) == [pc |-> "idle", ctx |-> NoCall, result |-> result]

TicketInit ==
    /\ Constructed(EmptyOrder)
    /\ decision_in = NoCall
    /\ decision_out = NoCall
    /\ normalize_in = NoCall
    /\ normalize_out = NoValue
    /\ retrieve_in = NoCall
    /\ retrieve_out = NoCall
    /\ tickets = <<>>
    /\ guard = [w \in Workers |-> Idle(NoCall)]
    /\ api = NoCall

\* process_ticket up to the return of has_active_ticket
HasActiveTicketStep(w) ==
    /\ guard[w].pc = "idle"
    /\ Len(tickets) + Cardinality({v \in Workers : guard[v].pc = "checked"}) < MaxTickets
    /\ \E ctx \in TicketContexts, db \in DbOutcomes :
        guard' = [guard EXCEPT ![w] =
                    IF HasActiveTicket(tickets, db)
                    THEN Idle(ActiveTicketExists)
                    ELSE [pc |-> "checked", ctx |-> ctx, result |-> NoCall]]
    /\ UNCHANGED <<pipeline_vars, engine_vars, normalizer_vars, retriever_vars,
                   tickets, api>>

\* process_ticket from the business rules to its return
CreateTicketStep(w) ==
    /\ guard[w].pc = "checked"
    /\ \E inv \in InventoryOutcomes, db \in DbOutcomes :
        /\ tickets' = RowsAfterGuard(tickets, guard[w].ctx, inv, db)
        /\ guard' = [guard EXCEPT ![w] = Idle(ResultAfterGuard(guard[w].ctx, inv, db))]
    /\ UNCHANGED <<pipeline_vars, engine_vars, normalizer_vars, retriever_vars, api>>

\* update_ticket_status, called by staff
UpdateTicketStatus ==
    /\ \E i \in DOMAIN tickets, new_status \in TicketStatuses :
        /\ tickets[i].status # new_status
        /\ tickets' = [tickets EXCEPT ![i].status = new_status]
    /\ UNCHANGED <<pipeline_vars, engine_vars, normalizer_vars, retriever_vars,
                   guard, api>>

TicketNext ==
    \/ \E w \in Workers : HasActiveTicketStep(w)
    \/ \E w \in Workers : CreateTicketStep(w)
    \/ UpdateTicketStatus

TicketSpec == TicketInit /\ [][TicketNext]_vars

(***************************************************************************)
(* ChatSpec: the /chat/start and /chat/respond requests of one             *)
(* conversation, served one after the other.  Each request builds a fresh  *)
(* pipeline; /chat/respond replays every stored user message through it.   *)
(***************************************************************************)
\* the request being served: its endpoint, how far the handler got, the
\* final_ticket the handler saw and the decision it passed to process_ticket
Request(endpoint, phase, final_ticket, ticket_call) ==
    [called |-> TRUE, endpoint |-> endpoint, phase |-> phase,
     final_ticket |-> final_ticket, ticket_call |-> ticket_call]

\* STRIDERAGPipeline(order_id=order_id) inside a handler
NewPipeline ==
    /\ order' = order
    /\ turn_count' = 0
    /\ general_chat_count' = 0
    /\ inventory_available' = NoValue
    /\ signals' = <<>>
    /\ response' = Response(NoValue, NoValue, NoValue, 0, NoValue)
    /\ trace' = Trace("none", "none", FALSE, NoValue)
    /\ history' = [substantive_calls |-> 0, arb_runs |-> 0]

\* order_ctx of respond_chat: the cached order with compute_days_since_purchase
OrderContext(o, decision) ==
    TicketContext(IF HasMinimumOrderContext(o) THEN "O1" ELSE NoValue,
                  decision, DaysUsed(o.purchase_date))

ChatInit ==
    /\ \E o \in {EmptyOrder, Order("OUT1", "P1", "9", PurchaseDate("date", OrderAge))} :
        Constructed(o)
    /\ NoDirectCalls

NoRequestRunning == IF api.called THEN api.phase = "done" ELSE TRUE

\* start_chat up to the construction of the pipeline; with a ticket on
\* record the handler streams the ticket-exists prompt and returns
StartChatBegin ==
    /\ NoRequestRunning
    /\ \E db \in DbOutcomes :
        IF db = "ok" /\ tickets # <<>>
        THEN /\ api' = Request("start", "done", NoValue, NoValue)
             /\ UNCHANGED pipeline_vars
        ELSE /\ api' = Request("start", "pipeline", NoValue, NoValue)
             /\ NewPipeline
    /\ UNCHANGED <<engine_vars, normalizer_vars, retriever_vars, tickets, guard>>

\* respond_chat up to the construction of the pipeline
RespondChatBegin ==
    /\ api.called
    /\ api.phase = "done"
    /\ api' = Request("respond", "pipeline", NoValue, NoValue)
    /\ NewPipeline
    /\ UNCHANGED <<engine_vars, normalizer_vars, retriever_vars, tickets, guard>>

\* what the analyzer makes of the customer's messages in this conversation
ChatAnalyzerOutcomes ==
    {[raised |-> TRUE, analysis |-> Analysis(NoValue, NoValue, NoValue)],
     [raised |-> FALSE, analysis |-> Analysis("general_chat", "general_chat", "False")],
     [raised |-> FALSE, analysis |-> Analysis("refund_request", "refund_request", "False")],
     [raised |-> FALSE, analysis |-> Analysis("repair_request", "repair_request", "True")],
     [raised |-> FALSE, analysis |-> Analysis(NoValue, "general_chat", "False")]}

\* pipeline.process_turn(text) inside a handler: the one call of start_chat,
\* or one iteration of the replay loop of respond_chat
ChatTurn ==
    /\ api.called /\ api.phase = "pipeline"
    /\ api.endpoint = "start" => trace.kind = "none"
    /\ turn_count < MaxScenarioTurns
    /\ ProcessTurnOn(ChatAnalyzerOutcomes, {"available", "unavailable"}, RetrieverOutcomes)

\* start_chat after process_turn: the GCD JSON or the streamed answer
StartChatEnd ==
    /\ api.called /\ api.phase = "pipeline" /\ api.endpoint = "start"
    /\ trace.kind # "none"
    /\ api' = Request("start", "done", response.final_ticket, NoValue)
    /\ UNCHANGED <<pipeline_vars, engine_vars, normalizer_vars, retriever_vars,
                   tickets, guard>>

\* respond_chat after the replay loop: _handle_gcd_if_needed, then
\* save_conversation_summary_with_ticket with the final ticket;
\* process_ticket runs to its end inside the handler and its active-ticket
\* query is answered
RespondChatEnd ==
    /\ api.called /\ api.phase = "pipeline" /\ api.endpoint = "respond"
    /\ trace.kind # "none"
    /\ IF response.final_ticket # "GCD" /\ IsActionable(response.final_ticket)
       THEN /\ api' = Request("respond", "done", response.final_ticket,
                              response.final_ticket)
            /\ \E inv \in InventoryOutcomes, db \in DbOutcomes :
                tickets' = ProcessTicketRows(tickets,
                                             OrderContext(order, response.final_ticket),
                                             "ok", inv, db)
       ELSE /\ api' = Request("respond", "done", response.final_ticket, NoValue)
            /\ UNCHANGED tickets
    /\ UNCHANGED <<pipeline_vars, engine_vars, normalizer_vars, retriever_vars, guard>>

ChatNext ==
    \/ StartChatBegin
    \/ RespondChatBegin
    \/ ChatTurn
    \/ StartChatEnd
    \/ RespondChatEnd

ChatSpec == ChatInit /\ [][ChatNext]_vars

(***************************************************************************)
(* Properties of the pipeline (checked under Spec)                         *)
(***************************************************************************)
\* calls that got past the general-chat diversion (the turn was substantive)
SubstantiveKinds == {"no_order", "turn_error", "clarification", "arbitrated"}

\* the loaded order names an outlet, a product and a size
OrderComplete ==
    order.outlet_id # NoValue /\ order.product_id # NoValue /\ order.size # NoValue

\* the signals of the ledger tagged with a turn up to t
LedgerUpTo(t) == SelectSeq(signals, LAMBDA sig : sig.turn <= t)

\* C1: a returned REPLACEMENT means this turn's inventory check reported the
\* item available; when arbitration resolves REPLACEMENT and this turn's
\* inventory check reported unavailable or raised, INSPECTION is returned.
C1_ReplacementRequiresStock ==
    /\ (response.final_ticket = "REPLACEMENT" => trace.inventory_check = "available")
    /\ ((/\ trace.arbitrated
         /\ trace.resolved = "REPLACEMENT"
         /\ trace.inventory_check \in {"unavailable", "raised"})
            => response.final_ticket = "INSPECTION")

C1_Witness ==
    /\ trace.arbitrated
    /\ trace.resolved = "REPLACEMENT"
    /\ trace.inventory_check = "raised"
    /\ response.final_ticket = "INSPECTION"

\* C2 as claimed: the first substantive turn always returns T1 with
\* needs_clarification and turn_count 1, does not arbitrate, and has appended
\* the turn's retriever signal and engine signal.
C2_Original ==
    (history.substantive_calls = 1 /\ trace.kind \in SubstantiveKinds)
        => /\ response.final_ticket = "T1"
           /\ response.needs_clarification = "True"
           /\ response.turn_count = 1
           /\ ~trace.arbitrated
           /\ Len(signals) = 2
           /\ signals[1].source = "retriever" /\ signals[1].turn = 1
           /\ signals[2].source = "engine" /\ signals[2].turn = 1

\* C2 amended: the first substantive turn never runs the arbitrator.  With
\* the order context present it raises turn_count to 1 and, unless the
\* retriever raises, returns T1 with needs_clarification and turn_count 1
\* after appending the turn's retriever and engine signal; when the retriever
\* raises it returns the INSPECTION fallback with nothing appended.  Without
\* the order context it returns the INSPECTION fallback and turn_count stays 0.
C2_FirstTurnClarifies ==
    (history.substantive_calls = 1 /\ trace.kind \in SubstantiveKinds)
        => /\ ~trace.arbitrated
           /\ trace.kind # "arbitrated"
           /\ (trace.kind = "no_order") = ~OrderComplete
           /\ trace.kind = "clarification"
                => /\ response.final_ticket = "T1"
                   /\ response.needs_clarification = "True"
                   /\ response.turn_count = 1
                   /\ turn_count = 1
                   /\ Len(signals) = 2
                   /\ signals[1].source = "retriever" /\ signals[1].turn = 1
                   /\ signals[2].source = "engine" /\ signals[2].turn = 1
           /\ trace.kind = "turn_error"
                => /\ response.final_ticket = "INSPECTION"
                   /\ response.turn_count = 1
                   /\ turn_count = 1
                   /\ signals = <<>>
           /\ trace.kind = "no_order"
                => /\ response.final_ticket = "INSPECTION"
                   /\ response.turn_count = 0
                   /\ turn_count = 0
                   /\ signals = <<>>

C2_Witness ==
    /\ history.substantive_calls = 1
    /\ trace.kind = "clarification"
    /\ response.final_ticket = "T1"
    /\ Len(signals) = 2
    /\ signals[2].value = "REPLACEMENT"

\* C3 as claimed: arbitration runs at most once per conversation.
C3_Original == history.arb_runs <= 1

\* C3 amended: arbitration runs on every substantive turn with
\* turn_count >= 2 that reaches it (order context present, retriever did not
\* raise), once per such turn and over the whole ledger: the number of
\* arbitrations equals the number of turns >= 2 that recorded signals, and a
\* turn that recorded signals arbitrated exactly when its turn_count is >= 2.
C3_ArbitratesEveryLaterTurn ==
    /\ history.arb_runs = Cardinality({signals[i].turn : i \in DOMAIN signals} \ {1})
    /\ trace.kind \in {"clarification", "arbitrated"}
        => /\ trace.arbitrated = (turn_count >= 2)
           /\ trace.arbitrated => trace.resolved = ResolveFinalTicket(signals)

\* the third turn arbitrated again and returned another ticket than the one
\* the ledger of the first two turns resolves to
C3_Witness ==
    /\ history.arb_runs = 2
    /\ turn_count = 3
    /\ trace.kind = "arbitrated"
    /\ ResolveFinalTicket(LedgerUpTo(2)) = "RETURN"
    /\ response.final_ticket = "INSPECTION"

\* C4 as claimed: turn_count equals the number of calls whose turn was
\* substantive (not general chat).
C4_Original == turn_count = history.substantive_calls

\* C4 amended: turn_count equals the number of non-general-chat calls when
\* the order has the required context (outlet_id, product_id, size) and stays
\* 0 when it has not; general-chat turns never change turn_count.
C4_TurnCountCountsSubstantiveTurns ==
    /\ [](turn_count = IF OrderComplete THEN history.substantive_calls ELSE 0)
    /\ [][trace'.kind = "general_chat" => turn_count' = turn_count]_vars

C4_Witness ==
    /\ turn_count = 2
    /\ history.substantive_calls = 2
    /\ trace.kind = "general_chat"
    /\ general_chat_count = 2

Called == decision_in.called
ArgIntent == decision_in.analysis.primary_intent
ArgMisuse == decision_in.analysis.misuse_or_accident = "True"
ArgDateValid == decision_in.purchase_date.kind = "date"
ArgDays == decision_in.purchase_date.age
ArgStock == decision_in.inventory_available
ArgTurn == decision_in.turn_count

\* C6 as claimed: intent refund/return and days > 7 give reject/REJECT with
\* generate_ticket false, for every call.
C6_Original ==
    (/\ Called
     /\ ArgIntent \in {"refund_request", "return_request"}
     /\ ArgDateValid /\ ArgDays > 7)
        => /\ decision_out.decision = "reject"
           /\ decision_out.ticket_type = "REJECT"
           /\ decision_out.generate_ticket = FALSE

\* C6 amended: intent refund/return and days > 7 give reject/REJECT with
\* generate_ticket false when turn_count < 3 and the call is not a misuse
\* case still in warranty (misuse flag set with days <= 180).
C6_LateRefundRejected ==
    (/\ Called
     /\ ArgIntent \in {"refund_request", "return_request"}
     /\ ArgDateValid /\ ArgDays > 7
     /\ ArgTurn < 3
     /\ ~(ArgMisuse /\ ArgDays <= 180))
        => /\ decision_out.decision = "reject"
           /\ decision_out.ticket_type = "REJECT"
           /\ decision_out.generate_ticket = FALSE

C6_Witness ==
    /\ Called
    /\ ArgIntent = "refund_request"
    /\ ArgDateValid /\ ArgDays = 8
    /\ ArgTurn = 1
    /\ ~ArgMisuse
    /\ decision_out.rule_code = "RULE_1_RETURN_REFUND_TOO_LATE"

\* C7 as claimed: misuse flag set and days <= 180 give PAID_REPAIR with
\* paid_service_flag, for every call.
C7_Original ==
    (Called /\ ArgMisuse /\ ArgDateValid /\ ArgDays <= 180)
        => /\ decision_out.ticket_type = "PAID_REPAIR"
           /\ decision_out.paid_service_flag = TRUE

\* C7 amended: misuse flag set and days <= 180 give PAID_REPAIR with
\* paid_service_flag when turn_count < 3 and primary_intent is present and
\* not general_chat.
C7_MisuseInWarrantyPaidRepair ==
    (/\ Called /\ ArgMisuse /\ ArgDateValid /\ ArgDays <= 180
     /\ ArgTurn < 3
     /\ ArgIntent \notin {"general_chat", "", NoValue})
        => /\ decision_out.ticket_type = "PAID_REPAIR"
           /\ decision_out.paid_service_flag = TRUE

C7_Witness ==
    /\ Called /\ ArgMisuse /\ ArgDateValid /\ ArgDays = 180
    /\ ArgTurn = 2
    /\ ArgIntent = "refund_request"
    /\ decision_out.rule_code = "RULE_0_MISUSE_IN_WARRANTY"

\* C8: a missing or unparseable purchase_date gives manual/INSPECTION by the
\* purchase-date check, before any rule, whatever the intent, misuse flag,
\* inventory and turn_count; never an approve decision.
C8_BadPurchaseDateInspection ==
    (Called /\ ~ArgDateValid)
        => /\ decision_out.decision = "manual"
           /\ decision_out.ticket_type = "INSPECTION"
           /\ decision_out.rule_code = "DATA_QUALITY_PURCHASE_DATE"
           /\ decision_out.decision # "approve"

C8_Witness ==
    /\ Called
    /\ decision_in.purchase_date.kind = "unparseable"
    /\ ArgIntent = "replacement_request"
    /\ ArgStock
    /\ ArgTurn = 1
    /\ decision_out.ticket_type = "INSPECTION"

\* C9: for intent repair/replacement, no misuse and turn_count < 3:
\* days <= 7 gives approve/REPLACEMENT with stock and manual/INSPECTION
\* without; 7 < days <= 180 gives approve/REPAIR; days > 180 gives
\* approve/PAID_REPAIR with paid_service_flag.
C9_RepairReplacementWindows ==
    (/\ Called
     /\ ArgIntent \in {"repair_request", "replacement_request"}
     /\ ~ArgMisuse /\ ArgTurn < 3 /\ ArgDateValid)
        => /\ (ArgDays <= 7 /\ ArgStock)
                => decision_out.decision = "approve" /\ decision_out.ticket_type = "REPLACEMENT"
           /\ (ArgDays <= 7 /\ ~ArgStock)
                => decision_out.decision = "manual" /\ decision_out.ticket_type = "INSPECTION"
           /\ (7 < ArgDays /\ ArgDays <= 180)
                => decision_out.decision = "approve" /\ decision_out.ticket_type = "REPAIR"
           /\ ArgDays > 180
                => /\ decision_out.decision = "approve"
                   /\ decision_out.ticket_type = "PAID_REPAIR"
                   /\ decision_out.paid_service_flag = TRUE

C9_Witness ==
    /\ Called
    /\ ArgIntent = "repair_request"
    /\ ~ArgMisuse /\ ArgTurn = 2 /\ ArgDateValid /\ ArgDays = 180
    /\ decision_out.ticket_type = "REPAIR"

\* C10: turn_count >= 3 with a valid purchase date and a primary_intent
\* other than general_chat gives manual/INSPECTION with generate_ticket true,
\* whatever the intent, misuse flag, days and inventory.
C10_TurnLimitEscalation ==
    (/\ Called
     /\ ArgTurn >= 3
     /\ ArgDateValid
     /\ ArgIntent \notin {"general_chat", "", NoValue})
        => /\ decision_out.decision = "manual"
           /\ decision_out.ticket_type = "INSPECTION"
           /\ decision_out.generate_ticket = TRUE

C10_Witness ==
    /\ Called
    /\ ArgTurn = 3
    /\ ArgDateValid /\ ArgDays = 2
    /\ ArgMisuse
    /\ ArgIntent = "refund_request"
    /\ decision_out.rule_code = "RULE_3_TURN_LIMIT"

\* C11: a call with primary_intent general_chat and a valid purchase date
\* gives reject/REJECT with generate_ticket false by the general-chat rule,
\* whatever turn_count (3 and above included), misuse flag, days and inventory.
C11_GeneralChatRejected ==
    (Called /\ ArgIntent = "general_chat" /\ ArgDateValid)
        => /\ decision_out.decision = "reject"
           /\ decision_out.ticket_type = "REJECT"
           /\ decision_out.generate_ticket = FALSE
           /\ decision_out.rule_code = "RULE_NEG1_GENERAL_CHAT"

\* general chat at the turn limit, misuse flag set, out of warranty
C11_Witness ==
    /\ Called
    /\ ArgIntent = "general_chat"
    /\ ArgDateValid /\ ArgDays = 181
    /\ ArgTurn = 4
    /\ ArgMisuse
    /\ ArgStock
    /\ decision_out.ticket_type = "REJECT"

\* the decision and ticket vocabularies of the engine
DecisionValues == {"approve", "reject", "manual"}

\* intent labels no rule of make_decision names
UnmatchedIntents == {"inspection_request", "unknown_request"}

\* C12: every call returns a result whose decision is approve, reject or
\* manual and whose ticket_type is one of the six canonical signals, for every
\* primary_intent (unknown, empty and missing included), misuse flag, purchase
\* date, inventory and turn_count; a call matched by no rule (an intent no
\* rule names, no misuse, turn_count < 3, valid date) gives manual/INSPECTION
\* with generate_ticket false.
C12_TotalWithDefault ==
    Called
        => /\ decision_out.decision \in DecisionValues
           /\ decision_out.ticket_type \in TicketSignal
           /\ decision_out.generate_ticket \in BOOLEAN
           /\ (/\ ArgIntent \in UnmatchedIntents
               /\ ~ArgMisuse /\ ArgTurn < 3 /\ ArgDateValid)
                => /\ decision_out.decision = "manual"
                   /\ decision_out.ticket_type = "INSPECTION"
                   /\ decision_out.generate_ticket = FALSE
                   /\ decision_out.rule_code = "DEFAULT_CLARIFICATION"

C12_Witness ==
    /\ Called
    /\ ArgIntent = "inspection_request"
    /\ ~ArgMisuse /\ ArgTurn = 2 /\ ArgDateValid /\ ArgDays = 9
    /\ decision_out.decision = "manual"
    /\ decision_out.rule_code = "DEFAULT_CLARIFICATION"

(***************************************************************************)
(* Properties of _resolve_final_ticket (checked under ArbSpec)             *)
(***************************************************************************)
Resolved == trace.kind = "resolve_call"

\* the distinct values of the ledger
LedgerValues == {signals[i].value : i \in DOMAIN signals}

\* weighted count of a value: an engine signal counts twice, a retriever
\* signal once
WeightedCount(v) ==
    2 * Cardinality({i \in DOMAIN signals :
                        signals[i].source = "engine" /\ signals[i].value = v})
    + Cardinality({i \in DOMAIN signals :
                        signals[i].source = "retriever" /\ signals[i].value = v})

\* position of the first signal with value v (v occurs in the ledger)
FirstOccurrence(v) ==
    CHOOSE i \in DOMAIN signals :
        signals[i].value = v /\ \A j \in 1..(i - 1) : signals[j].value # v

\* one of the four special cases of the arbitrator applies
SpecialCase ==
    \/ LedgerValues = {"REJECT"}
    \/ LedgerValues \subseteq {"REPAIR", "INSPECTION"}
    \/ LedgerValues = {"RETURN", "REPLACEMENT"}
    \/ LedgerValues = {"PAID_REPAIR"}

\* C13: when every signal of the ledger is REPAIR or INSPECTION the result
\* is REPAIR if the weighted count of REPAIR is at least 3 and INSPECTION
\* otherwise, whichever of the two has the weighted plurality.
C13_RepairNeedsThreeVotes ==
    (Resolved /\ LedgerValues \subseteq {"REPAIR", "INSPECTION"})
        => trace.resolved = (IF WeightedCount("REPAIR") >= 3
                             THEN "REPAIR" ELSE "INSPECTION")

\* REPAIR holds two of the three weighted votes, yet INSPECTION is returned
C13_Witness ==
    /\ Resolved
    /\ LedgerValues = {"REPAIR", "INSPECTION"}
    /\ WeightedCount("REPAIR") = 2
    /\ WeightedCount("INSPECTION") = 1
    /\ trace.resolved = "INSPECTION"

\* C14: when the distinct values of the ledger are exactly RETURN and
\* REPLACEMENT the result is REPLACEMENT, whatever the weighted counts and
\* the sources of the signals.
C14_ReplacementBeatsReturn ==
    (Resolved /\ LedgerValues = {"RETURN", "REPLACEMENT"})
        => trace.resolved = "REPLACEMENT"

\* one retriever REPLACEMENT against five weighted RETURN votes
C14_Witness ==
    /\ Resolved
    /\ LedgerValues = {"RETURN", "REPLACEMENT"}
    /\ WeightedCount("RETURN") = 5
    /\ WeightedCount("REPLACEMENT") = 1
    /\ trace.resolved = "REPLACEMENT"

\* C15: when no special case applies the result is a value of the ledger
\* with the maximal weighted count, and among the values tied for the
\* maximum the one whose first occurrence in the ledger is earliest.
C15_PluralityFirstInserted ==
    (Resolved /\ ~SpecialCase)
        => /\ trace.resolved \in LedgerValues
           /\ \A v \in LedgerValues :
                /\ WeightedCount(v) <= WeightedCount(trace.resolved)
                /\ WeightedCount(v) = WeightedCount(trace.resolved)
                     => FirstOccurrence(trace.resolved) <= FirstOccurrence(v)

\* a three-three tie that the value recorded first wins
C15_Witness ==
    /\ Resolved
    /\ ~SpecialCase
    /\ Len(signals) = 4
    /\ signals[1].value = "PAID_REPAIR" /\ signals[2].value = "PAID_REPAIR"
    /\ signals[3].value = "RETURN" /\ signals[4].value = "RETURN"
    /\ trace.resolved = "PAID_REPAIR"

\* the ledger with the turn and confidence tags blanked: its signal sequence
SignalSequence(ledger) ==
    [i \in DOMAIN ledger |-> PipelineSignal(ledger[i].source, ledger[i].value, 0, NoValue)]

\* C16: the result of a call is the result for the ledger's sequence of
\* (source, value) signals, so ledgers with the same signal sequence resolve
\* to the same ticket whatever their turn and confidence tags; a repeated
\* call returns the same ticket; a call leaves the ledger, turn_count and
\* general_chat_count unchanged.
C16_ArbitrationDeterministic ==
    /\ [](Resolved => trace.resolved = ResolveFinalTicket(SignalSequence(signals)))
    /\ [][(trace'.kind = "resolve_call" /\ history'.arb_runs # history.arb_runs)
            => /\ signals' = signals
               /\ turn_count' = turn_count
               /\ general_chat_count' = general_chat_count
               /\ (Resolved => trace'.resolved = trace.resolved)]_vars

\* a second call on a ledger tagged from turn 2 on, without match scores
C16_Witness ==
    /\ Resolved
    /\ history.arb_runs = 2
    /\ Len(signals) = 4
    /\ signals[1].turn = 2 /\ signals[1].confidence = NoValue
    /\ signals[1].value = "RETURN" /\ signals[2].value = "REPAIR"
    /\ signals[3].value = "REJECT" /\ signals[4].value = "REJECT"
    /\ trace.resolved = "REJECT"

(***************************************************************************)
(* Two-turn conversations (checked under ReturnScenarioSpec and            *)
(* LateRefundSpec)                                                         *)
(***************************************************************************)
\* turn 1 recorded its two signals and returned T1; turn 2 recorded RETURN
\* from the retriever and from the engine and arbitrated
SecondTurnBothReturn ==
    /\ order.purchase_date = PurchaseDate("date", 2)
    /\ turn_count = 2
    /\ trace.kind = "arbitrated"
    /\ Len(signals) = 4
    /\ signals[1].turn = 1 /\ signals[2].turn = 1
    /\ signals[3].source = "retriever" /\ signals[3].value = "RETURN"
    /\ signals[4].source = "engine" /\ signals[4].value = "RETURN"

\* C17 as claimed: such a turn 2 returns RETURN for every pair of turn-1
\* signals.
C17_Original == SecondTurnBothReturn => response.final_ticket = "RETURN"

\* C17 amended: such a turn 2 returns RETURN unless the turn-1 signals tip
\* the arbitration: when they are RETURN or REPLACEMENT with at least one
\* REPLACEMENT it returns REPLACEMENT (INSPECTION when the turn-2 inventory
\* check does not report stock); when retriever and engine recorded the same
\* value other than RETURN on turn 1 it returns that value, which ties with
\* RETURN at three weighted votes and was recorded first.
C17_SecondTurnReturn ==
    SecondTurnBothReturn
        => LET r1 == signals[1].value
               e1 == signals[2].value
           IN  response.final_ticket =
                   IF {r1, e1} \subseteq {"RETURN", "REPLACEMENT"} /\ "REPLACEMENT" \in {r1, e1}
                   THEN (IF trace.inventory_check = "available"
                         THEN "REPLACEMENT" ELSE "INSPECTION")
                   ELSE IF r1 = e1 /\ r1 # "RETURN" THEN r1
                   ELSE "RETURN"

\* turn 1 recorded PAID_REPAIR and REPLACEMENT, turn 2 still returns RETURN
C17_Witness ==
    /\ SecondTurnBothReturn
    /\ signals[1].value = "PAID_REPAIR"
    /\ signals[2].value = "REPLACEMENT"
    /\ response.final_ticket = "RETURN"

\* C18: for an order bought more than 7 days ago, when every substantive
\* turn is a refund request without misuse, the arbitration of turn 2
\* returns REJECT whatever the retriever recorded on the two turns.
C18_LateRefundResolvesReject ==
    (/\ order.purchase_date.kind = "date" /\ order.purchase_date.age > 7
     /\ turn_count = 2
     /\ trace.kind = "arbitrated")
        => /\ response.final_ticket = "REJECT"
           /\ \A i \in DOMAIN signals :
                signals[i].source = "engine" => signals[i].value = "REJECT"

\* the retriever recorded RETURN on both turns
C18_Witness ==
    /\ order.purchase_date.age = 9
    /\ turn_count = 2
    /\ trace.kind = "arbitrated"
    /\ Len(signals) = 4
    /\ signals[1].value = "RETURN" /\ signals[3].value = "RETURN"
    /\ response.final_ticket = "REJECT"

(***************************************************************************)
(* Properties of _normalize_signal (checked under NormalizeSpec)           *)
(***************************************************************************)
Normalized == normalize_in.called /\ ~normalize_in.none

\* the token, upper-cased, contains the keyword
Has(keyword) == Contains(keyword, Upper(normalize_in.text))

\* C19: a token that contains both RETURN and REPLAC after upper-casing is
\* mapped to REPLACEMENT, never to RETURN, whatever other keywords it
\* contains.
C19_ReplacBeatsReturn ==
    (Normalized /\ Has(T_RETURN) /\ Has(T_REPLAC))
        => normalize_out = "REPLACEMENT"

\* a lower-case token naming return first, then every other keyword
C19_Witness ==
    /\ Normalized
    /\ Len(normalize_in.text) >= 6
    /\ SubSeq(normalize_in.text, 1, 6) = <<"r","e","t","u","r","n">>
    /\ Has(T_REPLAC) /\ Has(T_PAID) /\ Has(T_REPAIR) /\ Has(T_REJECT)
    /\ normalize_out = "REPLACEMENT"

\* C20 as claimed: the result is the signal of the first pattern matched in
\* the order REPLAC, PAID with REPAIR, REPAIR, REJECT, RETURN, else
\* INSPECTION.
C20_Original ==
    Normalized
        => normalize_out =
             IF Has(T_REPLAC) THEN "REPLACEMENT"
             ELSE IF Has(T_PAID) /\ Has(T_REPAIR) THEN "PAID_REPAIR"
             ELSE IF Has(T_REPAIR) THEN "REPAIR"
             ELSE IF Has(T_REJECT) THEN "REJECT"
             ELSE IF Has(T_RETURN) THEN "RETURN"
             ELSE "INSPECTION"

\* C20 amended: the result is the signal of the first pattern matched in the
\* order REPLAC, RETURN, PAID with REPAIR, REPAIR, REJECT, else INSPECTION:
\* RETURN yields only to REPLAC and beats REPAIR, PAID with REPAIR and REJECT.
C20_NormalizePrecedence ==
    Normalized
        => normalize_out =
             IF Has(T_REPLAC) THEN "REPLACEMENT"
             ELSE IF Has(T_RETURN) THEN "RETURN"
             ELSE IF Has(T_PAID) /\ Has(T_REPAIR) THEN "PAID_REPAIR"
             ELSE IF Has(T_REPAIR) THEN "REPAIR"
             ELSE IF Has(T_REJECT) THEN "REJECT"
             ELSE "INSPECTION"

\* PAID, REPAIR and REJECT together, neither RETURN nor REPLAC
C20_Witness ==
    /\ Normalized
    /\ Has(T_PAID) /\ Has(T_REPAIR) /\ Has(T_REJECT)
    /\ ~Has(T_RETURN) /\ ~Has(T_REPLAC)
    /\ normalize_out = "PAID_REPAIR"

(***************************************************************************)
(* Error handling and ledger invariants of the pipeline (checked under     *)
(* Spec unless said otherwise)                                             *)
(***************************************************************************)
\* a process_turn call has been made
Answered == trace.kind # "none"

\* C21 as claimed: with the order absent or incomplete every call returns
\* the INSPECTION manual fallback, runs no inventory check and no
\* arbitration, and leaves turn_count and the ledger as they were.
C21_Original ==
    (~OrderComplete /\ Answered)
        => /\ response.final_ticket = "INSPECTION"
           /\ trace.inventory_check = "none"
           /\ ~trace.arbitrated
           /\ turn_count = 0
           /\ signals = <<>>

\* C21 amended: with the order absent or incomplete no call runs the
\* inventory check, the retriever, the engine or the arbitrator, and
\* turn_count and the ledger stay as constructed; a call whose analysis is
\* not general chat returns the INSPECTION manual fallback naming the
\* missing order, a call whose analyzer raised returns the INSPECTION error
\* fallback, and a general-chat call returns GCD.
C21_MissingOrderShortCircuits ==
    ~OrderComplete
        => /\ turn_count = 0
           /\ signals = <<>>
           /\ inventory_available = NoValue
           /\ trace.inventory_check = "none"
           /\ ~trace.arbitrated
           /\ history.arb_runs = 0
           /\ trace.kind \in {"none", "general_chat", "analyzer_error", "no_order"}
           /\ response.turn_count = 0
           /\ trace.kind = "no_order"
                => /\ response.final_ticket = "INSPECTION"
                   /\ response.decision_reason =
                        "Order not found or missing required fields (outlet_id/product_id/size)."
           /\ trace.kind = "analyzer_error" => response.final_ticket = "INSPECTION"
           /\ trace.kind = "general_chat" => response.final_ticket = "GCD"

\* the second substantive call on an order that lacks only its size
C21_Witness ==
    /\ order.outlet_id # NoValue /\ order.product_id # NoValue /\ order.size = NoValue
    /\ trace.kind = "no_order"
    /\ history.substantive_calls = 2
    /\ response.final_ticket = "INSPECTION"
    /\ turn_count = 0

\* the fallback the catch-all of process_turn returns
ErrorFallbackReason == "Error occurred, fallback to manual inspection."

\* C22: every call returns a response; a call in which the analyzer or the
\* retriever raised returns the fallback response with final_ticket
\* INSPECTION and a decision_reason naming the fallback to manual
\* inspection.
C22_ExceptionsBecomeFallback ==
    /\ Answered => response.final_ticket # NoValue
    /\ trace.kind \in {"analyzer_error", "turn_error"}
        => /\ response.final_ticket = "INSPECTION"
           /\ response.decision_reason = ErrorFallbackReason
           /\ response.needs_clarification = NoValue
           /\ response.turn_count = turn_count

\* the retriever raised on turn 2, after turn 1 had recorded its signals
C22_Witness ==
    /\ trace.kind = "turn_error"
    /\ turn_count = 2
    /\ Len(signals) = 2
    /\ response.final_ticket = "INSPECTION"
    /\ response.decision_reason = ErrorFallbackReason

\* C23 as claimed: an inventory lookup that raises counts as unavailable,
\* and a turn that has the order context always runs the engine, records
\* its signal and returns its normal response (T1 at turn 1, the arbitrated
\* ticket later), also when the retriever or the inventory lookup raised.
C23_Original ==
    /\ trace.inventory_check = "raised" => inventory_available = "False"
    /\ (OrderComplete /\ trace.kind \in SubstantiveKinds)
        => /\ trace.kind \in {"clarification", "arbitrated"}
           /\ signals # <<>>
           /\ signals[Len(signals)].source = "engine"
           /\ signals[Len(signals)].turn = turn_count
           /\ (turn_count = 1) = (response.final_ticket = "T1")

\* the turn tags present in the ledger
LedgerTurns == {signals[i].turn : i \in DOMAIN signals}

\* C24 as claimed: a direct arbitration call on a ledger with fewer than
\* two recorded turns, or a repeated call, does not return a ticket.
C24_Original ==
    (Resolved /\ (Cardinality(LedgerTurns) < 2 \/ history.arb_runs >= 2))
        => trace.resolved \notin TicketSignal

\* C24 amended: arbitration never raises; called on any ledger (empty or
\* holding one turn included) and any number of times it returns one of the
\* six tickets, INSPECTION for the empty ledger.
C24_ArbitrationAlwaysReturns ==
    Resolved
        => /\ trace.resolved \in TicketSignal
           /\ signals = <<>> => trace.resolved = "INSPECTION"

\* a second call on a ledger that holds one turn
C24_Witness ==
    /\ Resolved
    /\ history.arb_runs = 2
    /\ Cardinality(LedgerTurns) = 1
    /\ signals[1].value = "RETURN" /\ signals[2].value = "RETURN"
    /\ trace.resolved = "RETURN"

FinalTickets == TicketSignal \cup {"T1", "GCD"}

\* C25: every response has final_ticket among the six signals, T1 and GCD;
\* T1 is returned only by the first substantive turn, GCD only by turns the
\* general-chat diversion answered.
C25_FinalTicketVocabulary ==
    Answered
        => /\ response.final_ticket \in FinalTickets
           /\ response.final_ticket = "T1"
                => /\ trace.kind = "clarification"
                   /\ history.substantive_calls = 1
                   /\ turn_count = 1
           /\ response.final_ticket = "GCD" => trace.kind = "general_chat"

\* T1 returned by the first substantive turn, which recorded its two signals
C25_Witness ==
    /\ response.final_ticket = "T1"
    /\ trace.kind = "clarification"
    /\ turn_count = 1
    /\ history.substantive_calls = 1
    /\ Len(signals) = 2

\* C27 as claimed (checked under PrimaryChatSpec, where every analysis has
\* primary_intent general_chat): every turn is diverted, so turn_count and
\* the ledger stay unchanged and no inventory check, retriever, engine or
\* arbitration runs.
C27_Original ==
    /\ turn_count = 0
    /\ signals = <<>>
    /\ trace.kind \in {"none", "general_chat"}
    /\ trace.inventory_check = "none"
    /\ ~trace.arbitrated

\* C28 as claimed: whenever a call arbitrated, the ledger holds signals of
\* at least two distinct turns.
C28_Original ==
    trace.kind = "arbitrated" => Cardinality(LedgerTurns) >= 2

\* C29: every call keeps the previous ledger as a prefix of the new one and
\* tags each appended signal with the turn_count of the call; turn tags never
\* decrease along the ledger.
C29_LedgerAppendOnly ==
    /\ [][/\ Len(signals') >= Len(signals)
           /\ SubSeq(signals', 1, Len(signals)) = signals
           /\ \A i \in (Len(signals) + 1)..Len(signals') :
                signals'[i].turn = turn_count']_vars
    /\ [](\A i \in DOMAIN signals : \A j \in DOMAIN signals :
                i <= j => signals[i].turn <= signals[j].turn)

\* turns 1 and 3 recorded, turn 2 recorded nothing
C29_Witness ==
    /\ turn_count = 3
    /\ Len(signals) = 4
    /\ signals[2].turn = 1
    /\ signals[3].turn = 3

\* C30 as claimed: the ledger holds exactly two signals per counted turn, a
\* retriever signal then an engine signal, both tagged with the turn.
C30_Original ==
    /\ Len(signals) = 2 * turn_count
    /\ \A t \in 1..turn_count :
        /\ 2 * t <= Len(signals)
        /\ signals[2 * t - 1].source = "retriever" /\ signals[2 * t - 1].turn = t
        /\ signals[2 * t].source = "engine" /\ signals[2 * t].turn = t

\* the rows of the store that are eligible for the call: the order's age
\* within [min_days, max_days] (max_days unbounded when null) and the
\* predicted intent among eligible_intents
EligibleRows ==
    {r \in retrieve_in.rows :
        /\ retrieve_in.purchase_date.kind = "date"
        /\ r.min_days <= retrieve_in.purchase_date.age
        /\ (r.max_days.none \/ retrieve_in.purchase_date.age <= r.max_days.days)
        /\ retrieve_in.analysis.primary_intent \in r.eligible_intents}

\* the result "no match": no policy returned
NoMatch == [policy_type |-> NoValue, content |-> NoValue, score |-> 0]

\* C26 as claimed: the retriever returns no match when no row is eligible,
\* and otherwise the policy_type of an eligible row whose match score no
\* other eligible row exceeds.
C26_Original ==
    retrieve_in.called
        => IF EligibleRows = {}
           THEN retrieve_out = NoMatch
           ELSE /\ retrieve_out # NoMatch
                /\ \E r \in EligibleRows :
                    /\ r.policy_type = retrieve_out.policy_type
                    /\ \A q \in EligibleRows : q.similarity <= r.similarity

(***************************************************************************)
(* Further properties of the engine (checked under EngineSpec)            *)
(***************************************************************************)
\* C31: for intent refund_request or return_request, no misuse, turn_count
\* below 3 and a purchase at most 7 days old (day 7 included), make_decision
\* returns manual/RETURN with generate_ticket true, with or without stock.
C31_ReturnWithinWindow ==
    (/\ Called
     /\ ArgIntent \in {"refund_request", "return_request"}
     /\ ~ArgMisuse
     /\ ArgTurn < 3
     /\ ArgDateValid /\ ArgDays <= 7)
        => /\ decision_out.decision = "manual"
           /\ decision_out.ticket_type = "RETURN"
           /\ decision_out.generate_ticket = TRUE

\* a return on day 7 with the item out of stock
C31_Witness ==
    /\ Called
    /\ ArgIntent = "return_request"
    /\ ~ArgMisuse
    /\ ArgTurn = 2
    /\ ArgDateValid /\ ArgDays = 7
    /\ ~ArgStock
    /\ decision_out.ticket_type = "RETURN"

\* the intents other than general chat the claim lists
ListedIntents == {"refund_request", "return_request", "repair_request",
                  "replacement_request", "inspection_request"}

\* C32: with the misuse flag set, turn_count below 3, a valid purchase date
\* more than 180 days old and any listed intent, make_decision returns
\* reject/REJECT by the out-of-warranty misuse rule, with generate_ticket
\* false, whatever the inventory.
C32_MisuseOutOfWarrantyRejected ==
    (/\ Called
     /\ ArgMisuse
     /\ ArgTurn < 3
     /\ ArgDateValid /\ ArgDays > 180
     /\ ArgIntent \in ListedIntents)
        => /\ decision_out.decision = "reject"
           /\ decision_out.ticket_type = "REJECT"
           /\ decision_out.generate_ticket = FALSE
           /\ decision_out.paid_service_flag = FALSE
           /\ decision_out.rule_code = "RULE_0_MISUSE_OUT_OF_WARRANTY"

\* a misused item brought for repair on day 181, in stock
C32_Witness ==
    /\ Called
    /\ ArgMisuse
    /\ ArgTurn = 2
    /\ ArgDateValid /\ ArgDays = 181
    /\ ArgIntent = "repair_request"
    /\ ArgStock
    /\ decision_out.ticket_type = "REJECT"

\* C36: make_decision returns ticket_type REPLACEMENT only when the item is
\* in stock, the purchase is at most 7 days old, the intent is
\* repair_request or replacement_request, the misuse flag is not set and
\* turn_count is below 3.
C36_ReplacementOnlyInStock ==
    (Called /\ decision_out.ticket_type = "REPLACEMENT")
        => /\ ArgStock
           /\ ArgDateValid /\ ArgDays <= 7
           /\ ArgIntent \in {"repair_request", "replacement_request"}
           /\ ~ArgMisuse
           /\ ArgTurn < 3

\* a replacement granted for a repair request on day 7, the item in stock
C36_Witness ==
    /\ Called
    /\ ArgStock
    /\ decision_out.ticket_type = "REPLACEMENT"
    /\ ArgIntent = "repair_request"
    /\ ArgDays = 7
    /\ ArgTurn = 2

(***************************************************************************)
(* The retriever found no policy (checked under NoMatchSpec)               *)
(***************************************************************************)
\* C33: when the retriever returns no match, the turn records a retriever
\* signal for the current turn with value INSPECTION and no confidence,
\* followed by the engine signal.
C33_NoMatchRecordsInspection ==
    /\ \A i \in DOMAIN signals :
        signals[i].source = "retriever"
            => signals[i].value = "INSPECTION" /\ signals[i].confidence = NoValue
    /\ trace.kind \in {"clarification", "arbitrated"}
        => /\ Len(signals) >= 2
           /\ signals[Len(signals) - 1] =
                [source |-> "retriever", value |-> "INSPECTION",
                 turn |-> turn_count, confidence |-> NoValue]
           /\ signals[Len(signals)].source = "engine"

\* the second turn arbitrated after two turns without a match
C33_Witness ==
    /\ trace.kind = "arbitrated"
    /\ turn_count = 2
    /\ Len(signals) = 4
    /\ signals[1].source = "retriever" /\ signals[1].value = "INSPECTION"
    /\ signals[3].source = "retriever" /\ signals[3].value = "INSPECTION"
    /\ signals[3].turn = 2

(***************************************************************************)
(* After the chat was closed (checked under Spec)                          *)
(***************************************************************************)
\* the last call returned chat_closed = true
ChatClosed == response.chat_closed = "True"

\* C34 as claimed: the call that follows one that returned chat_closed = true
\* returns GCD and leaves turn_count and the ledger as they were.
C34_Original ==
    [][ChatClosed
        => /\ response'.final_ticket = "GCD"
           /\ turn_count' = turn_count
           /\ signals' = signals]_vars

(***************************************************************************)
(* Engine against retriever (checked under ArbSpec)                        *)
(***************************************************************************)
\* the ledger holds turns 1 and 2 and the engine emitted the same signal on
\* both
EngineAgreedTwice ==
    /\ Len(signals) = 4
    /\ signals[2].source = "engine" /\ signals[2].turn = 1
    /\ signals[4].source = "engine" /\ signals[4].turn = 2
    /\ signals[2].value = signals[4].value

\* C35 as claimed: at turn 2, when the engine emitted the same signal X on
\* turns 1 and 2, arbitration resolves to X whatever the retriever emitted.
C35_Original ==
    (Resolved /\ EngineAgreedTwice) => trace.resolved = signals[2].value

\* C35 amended: at turn 2, when the engine emitted the same signal X on
\* turns 1 and 2, arbitration resolves to X, except that it resolves to
\* REPLACEMENT when X is RETURN and the two retriever signals are RETURN or
\* REPLACEMENT with at least one REPLACEMENT.
C35_EngineAuthoritative ==
    (Resolved /\ EngineAgreedTwice)
        => trace.resolved =
            (IF /\ signals[2].value = "RETURN"
                /\ {signals[1].value, signals[3].value} \subseteq {"RETURN", "REPLACEMENT"}
                /\ "REPLACEMENT" \in {signals[1].value, signals[3].value}
             THEN "REPLACEMENT"
             ELSE signals[2].value)

\* the engine said REPAIR twice, the retriever REJECT twice
C35_Witness ==
    /\ Resolved
    /\ EngineAgreedTwice
    /\ signals[2].value = "REPAIR"
    /\ signals[1].value = "REJECT" /\ signals[3].value = "REJECT"
    /\ trace.resolved = "REPAIR"

(***************************************************************************)
(* Ticket creation (checked under TicketSpec)                              *)
(***************************************************************************)
\* the order has an active ticket
ActiveTickets == {i \in DOMAIN tickets : tickets[i].status \in {"OPEN", "MANUAL_REVIEW"}}

\* C38 as claimed: process_ticket never inserts a ticket while an active
\* ticket exists for the order, also when two calls interleave between the
\* check and the insert.
C38_Original ==
    [][Len(tickets') > Len(tickets) => ActiveTickets = {}]_vars

(***************************************************************************)
(* Requests and tickets (checked under ChatSpec)                           *)
(***************************************************************************)
\* the handler of the last request has returned
Served == IF api.called THEN api.phase = "done" ELSE FALSE

\* C39: /chat/start never calls process_ticket; /chat/respond calls it only
\* with a final_ticket among REPAIR, REPLACEMENT, PAID_REPAIR, RETURN and
\* INSPECTION, never for REJECT, T1 or GCD; and a ticket row is inserted
\* only by such a call.
C39_TicketsOnlyForActionable ==
    /\ [](Served =>
            /\ api.endpoint = "start" => api.ticket_call = NoValue
            /\ api.final_ticket \in {"REJECT", "T1", "GCD"} => api.ticket_call = NoValue
            /\ api.ticket_call # NoValue
                => /\ api.endpoint = "respond"
                   /\ api.ticket_call = api.final_ticket
                   /\ api.final_ticket \in {"REPAIR", "REPLACEMENT", "PAID_REPAIR",
                                             "RETURN", "INSPECTION"})
    /\ [][Len(tickets') > Len(tickets)
            => /\ api'.endpoint = "respond"
               /\ api'.ticket_call \in {"REPAIR", "REPLACEMENT", "PAID_REPAIR",
                                         "RETURN", "INSPECTION"}]_vars

\* /chat/respond resolved the conversation to REJECT and created no ticket
C39_Witness ==
    /\ Served
    /\ api.endpoint = "respond"
    /\ api.final_ticket = "REJECT"
    /\ api.ticket_call = NoValue
    /\ trace.kind = "arbitrated"
    /\ tickets = <<>>

====
